---------------------------- MODULE Spec2Model ----------------------------
(***************************************************************************)
(* A model of the quantitative engine of ecomodel-hub:                     *)
(*   - the flexible n-state cohort simulator  (engine/markov/flexible.py)  *)
(*   - the fixed 3-state cohort simulator     (engine/markov/core.py)      *)
(*   - the decision-tree evaluator            (engine/decision_tree)       *)
(*   - the probabilistic sensitivity analysis (engine/sensitivity)         *)
(*   - the value-of-information analysis      (engine/sensitivity)         *)
(*   - the budget-impact projector            (engine/budget_impact)       *)
(*   - the tornado analysis                   (engine/sensitivity)         *)
(*   - the three ICER calculators                                          *)
(*   - the parametric survival object         (engine/survival)            *)
(*   - the simulation endpoints               (app/api/v1/endpoints)       *)
(*                                                                         *)
(* Numbers.  The engine computes in IEEE doubles.  The model computes in   *)
(* exact rationals [n, d] (d > 0, lowest terms), so every property below   *)
(* is a property of the arithmetic the code writes down, free of rounding  *)
(* noise; the explicit roundings of the code (round(x, 2), round(x, 4))    *)
(* are modelled by Round.                                                  *)
(*                                                                         *)
(* Each engine has one variable holding its object's fields and its own    *)
(* specification; the variables of the other engines stay idle in it.      *)
(***************************************************************************)
EXTENDS Integers, Sequences, FiniteSets, TLC

VARIABLES flex, core, tree, psa, voi, bim, tornado, icer_calc, np_random, surv, sim

vars == <<flex, core, tree, psa, voi, bim, tornado, icer_calc, np_random, surv, sim>>

-----------------------------------------------------------------------------
(* Rational arithmetic *)

Abs(x) == IF x < 0 THEN -x ELSE x

RECURSIVE GCD(_, _)
GCD(a, b) == IF b = 0 THEN a ELSE GCD(b, a % b)

\* the rational n/d in lowest terms with a positive denominator
Rat(n, d) ==
    LET s == IF d < 0 THEN -1 ELSE 1
        g == GCD(Abs(n), Abs(d))
    IN  [n |-> (s * n) \div g, d |-> (s * d) \div g]

Zero == [n |-> 0, d |-> 1]
One == [n |-> 1, d |-> 1]
FromInt(i) == [n |-> i, d |-> 1]

RAdd(x, y) ==
    LET g == GCD(x.d, y.d)
    IN  Rat(x.n * (y.d \div g) + y.n * (x.d \div g), (x.d \div g) * y.d)

RNeg(x) == [n |-> -x.n, d |-> x.d]
RSub(x, y) == RAdd(x, RNeg(y))

RMul(x, y) ==
    LET g1 == GCD(Abs(x.n), y.d)
        g2 == GCD(Abs(y.n), x.d)
        h1 == IF g1 = 0 THEN 1 ELSE g1
        h2 == IF g2 = 0 THEN 1 ELSE g2
    IN  Rat((x.n \div h1) * (y.n \div h2), (x.d \div h2) * (y.d \div h1))

\* x / y for y # 0
RDiv(x, y) == RMul(x, Rat(y.d, y.n))

RLt(x, y) == RSub(x, y).n < 0
RLe(x, y) == RSub(x, y).n <= 0
RMin(x, y) == IF RLt(y, x) THEN y ELSE x

RECURSIVE RPow(_, _)
RPow(x, k) == IF k = 0 THEN One ELSE RMul(x, RPow(x, k - 1))

RECURSIVE RSumTo(_, _)
\* f[1] + ... + f[k]
RSumTo(f, k) == IF k = 0 THEN Zero ELSE RAdd(RSumTo(f, k - 1), f[k])

RSum(f) == RSumTo(f, Len(f))

-----------------------------------------------------------------------------
(* Flexible Markov model: engine/markov/flexible.py *)

\* the default states of run_flexible_markov_analysis
StateNames == <<"Stable", "Progression", "Death">>

NStates == Len(StateNames)

\* a name no declared state has
Ghost == "Ghost"

\* bound: the longest list of declared transitions
MaxTransitions == 2

\* bound: the longest time horizon, in cycles (cycle_length is 1.0)
MaxHorizon == 2

\* the cohort sizes tried
CohortSizes == {2}

\* a Transition; cost is left at its default 0.0
Transition(f, t, p, td, fn) ==
    [from_state |-> f, to_state |-> t, probability |-> p, cost |-> Zero,
     time_dependent |-> td, probability_function |-> fn]

\* a Transition with a cost of its own
WithCost(trans, cost) == [trans EXCEPT !.cost = cost]

\* the cost and the utility of the declared states
StateCost == <<FromInt(2), FromInt(5), Zero>>
StateUtility == <<One, Rat(1, 2), Zero>>

\* the declared transitions tried: rows that sum to less than 1 and to more
\* than 1, every time-dependence function and an unknown one, a pair declared
\* twice, a transition out of the (possibly absorbing) last state, an unknown
\* endpoint, a transition with a cost of its own
TransitionPool ==
    { WithCost(Transition("Stable", "Death", Rat(3, 4), FALSE, "None"), FromInt(7)),
      Transition("Stable", "Death", Rat(3, 2), TRUE, "custom"),
      Transition("Progression", "Progression", One, FALSE, "None"),
      Transition("Progression", "Death", Rat(1, 4), TRUE, "linear_increase"),
      Transition("Progression", "Death", Rat(25, 51), TRUE, "exponential_increase"),
      Transition("Progression", "Stable", Rat(3, 4), TRUE, "weibull"),
      Transition("Death", "Stable", Rat(1, 2), FALSE, "None"),
      Transition("Stable", Ghost, Rat(1, 2), FALSE, "None") }

TransitionLists ==
    UNION { [1..k -> TransitionPool] : k \in 0..MaxTransitions }

\* the state_type of each declared state
StateTypeChoices ==
    { <<"transient", "tunnel", "absorbing">>,
      <<"transient", "transient", "transient">> }

\* initial_distribution = None
NoneDistribution == [is_none |-> TRUE]

\* caller-supplied initial_distribution mappings, and None (the default):
\* proportions in place of patient counts, a mapping that names an unknown
\* state and omits declared ones
InitialDistributions ==
    { NoneDistribution,
      [is_none |-> FALSE, map |-> [Stable |-> Rat(1, 2), Progression |-> Rat(1, 2)]],
      [is_none |-> FALSE, map |-> [Progression |-> One, Ghost |-> One]] }

\* dict.get(key, default) on a mapping modelled as a function
Get(m, key, default) == IF key \in DOMAIN m THEN m[key] ELSE default

\* state_idx.get(name): the index of a declared state, 0 for None
StateIdx(name) ==
    IF \E i \in 1..NStates : StateNames[i] = name
    THEN CHOOSE i \in 1..NStates : StateNames[i] = name
    ELSE 0

\* FlexibleMarkovModel.__init__: the initial distribution
InitialDistributionOf(cohort_size, initial_distribution) ==
    IF initial_distribution.is_none
    THEN [i \in 1..NStates |-> IF i = 1 THEN FromInt(cohort_size) ELSE Zero]
    ELSE [i \in 1..NStates |-> Get(initial_distribution.map, StateNames[i], Zero)]

\* 1 - exp(-hazard), hazard = (1.5/10) * (t/10)^0.5, to two decimals
WeibullTable == <<Rat(5, 100), Rat(6, 100), Rat(8, 100), Rat(9, 100), Rat(10, 100)>>

WeibullProb(cycle) ==
    IF cycle = 0 THEN Zero
    ELSE IF cycle <= Len(WeibullTable) THEN WeibullTable[cycle]
    ELSE WeibullTable[Len(WeibullTable)]

\* FlexibleMarkovModel._evaluate_probability_function
EvaluateProbabilityFunction(func_str, base_prob, cycle) ==
    IF func_str = "linear_increase"
    THEN RMin(One, RMul(base_prob, RAdd(One, RMul(Rat(5, 100), FromInt(cycle)))))
    ELSE IF func_str = "exponential_increase"
    THEN RMin(One, RMul(base_prob, RPow(Rat(102, 100), cycle)))
    ELSE IF func_str = "weibull"
    THEN WeibullProb(cycle)
    ELSE base_prob

ZeroMatrix == [i \in 1..NStates |-> [j \in 1..NStates |-> Zero]]

\* the probability a declared transition has in the given cycle
TransitionProb(trans, cycle) ==
    IF trans.time_dependent /\ trans.probability_function # "None"
    THEN EvaluateProbabilityFunction(trans.probability_function,
                                     trans.probability, cycle)
    ELSE trans.probability

RECURSIVE FillMatrix(_, _, _, _)
\* the loop over the declared transitions: a later entry for the same pair
\* overwrites an earlier one, entries naming an unknown state are skipped
FillMatrix(matrix, transitions, k, cycle) ==
    IF k > Len(transitions) THEN matrix
    ELSE LET trans == transitions[k]
             from_idx == StateIdx(trans.from_state)
             to_idx == StateIdx(trans.to_state)
         IN  IF from_idx = 0 \/ to_idx = 0
             THEN FillMatrix(matrix, transitions, k + 1, cycle)
             ELSE FillMatrix(
                    [matrix EXCEPT ![from_idx][to_idx] = TransitionProb(trans, cycle)],
                    transitions, k + 1, cycle)

\* a faulty variant: the over-full row is returned as declared
NormalizeRowSkipped(row, row_sum) == row

\* a row with more than the whole probability mass: divided by its sum
NormalizeRow(row, row_sum) == [j \in 1..NStates |-> RDiv(row[j], row_sum)]

\* the row fix-up loop of build_transition_matrix, for row i
FixRow(types, row, i) ==
    LET row_sum == RSum(row)
    IN  IF types[i] = "absorbing"
        THEN [j \in 1..NStates |-> IF j = i THEN One ELSE Zero]
        ELSE IF RLt(row_sum, One)
        THEN [row EXCEPT ![i] = RAdd(row[i], RSub(One, row_sum))]
        ELSE IF RLt(One, row_sum)
        THEN NormalizeRow(row, row_sum)
        ELSE row

\* FlexibleMarkovModel.build_transition_matrix
BuildTransitionMatrix(types, transitions, cycle) ==
    LET raw == FillMatrix(ZeroMatrix, transitions, 1, cycle)
    IN  [i \in 1..NStates |-> FixRow(types, raw[i], i)]

\* a faulty variant: matrix @ trace[cycle - 1]: the product taken on the wrong side
MatVec(row, matrix) ==
    [i \in 1..NStates |->
        RSum([j \in 1..NStates |-> RMul(matrix[i][j], row[j])])]

\* trace[cycle - 1] @ matrix
VecMat(row, matrix) ==
    [j \in 1..NStates |->
        RSum([i \in 1..NStates |-> RMul(row[i], matrix[i][j])])]

\* the payoffs of a cycle from the occupancy of the states
CyclePayoffs(types, occupancy) ==
    [cost |-> RSum([i \in 1..NStates |-> RMul(occupancy[i], StateCost[i])]),
     qaly |-> RSum([i \in 1..NStates |->
                      IF types[i] # "absorbing" \/ RLt(Zero, StateUtility[i])
                      THEN RMul(occupancy[i], StateUtility[i]) ELSE Zero]),
     ly |-> RSum([i \in 1..NStates |->
                    IF types[i] # "absorbing" \/ RLt(Zero, StateUtility[i])
                    THEN occupancy[i] ELSE Zero])]

\* the half-cycle correction of the first and the last cycle
HalfCycleCorrected(payoffs, cycle, n_cycles, half_cycle_correction) ==
    IF half_cycle_correction /\ (cycle = 1 \/ cycle = n_cycles)
    THEN [cost |-> RMul(payoffs.cost, Rat(1, 2)),
          qaly |-> RMul(payoffs.qaly, Rat(1, 2)),
          ly |-> RMul(payoffs.ly, Rat(1, 2))]
    ELSE payoffs

\* 1 / ((1 + rate) ** time), cycle_length being 1.0
FlexDiscount(rate, cycle) == RDiv(One, RPow(RAdd(One, rate), cycle))

\* the totals before the first cycle
ZeroTotals ==
    [total_cost |-> Zero, total_qaly |-> Zero, total_ly |-> Zero,
     undiscounted_cost |-> Zero, undiscounted_qaly |-> Zero]

\* the totals after a cycle is accumulated
Accumulated(totals, payoffs, discount_cost, discount_qaly) ==
    [total_cost |-> RAdd(totals.total_cost, RMul(payoffs.cost, discount_cost)),
     total_qaly |-> RAdd(totals.total_qaly, RMul(payoffs.qaly, discount_qaly)),
     total_ly |-> RAdd(totals.total_ly, RMul(payoffs.ly, discount_qaly)),
     undiscounted_cost |-> RAdd(totals.undiscounted_cost, payoffs.cost),
     undiscounted_qaly |-> RAdd(totals.undiscounted_qaly, payoffs.qaly)]

\* the totals of run_simulation after the cycle that ends in the occupancy
TotalsAfterCycle(model, occupancy, cycle) ==
    Accumulated(model.totals,
                HalfCycleCorrected(CyclePayoffs(model.state_types, occupancy), cycle,
                                   model.n_cycles, model.half_cycle_correction),
                FlexDiscount(model.discount_rate_costs, cycle),
                FlexDiscount(model.discount_rate_outcomes, cycle))

\* the StrategyResults returned, without the trace and the cycle results
StrategyResults(model) ==
    [total_cost |-> model.totals.total_cost,
     total_qalys |-> RDiv(model.totals.total_qaly, FromInt(model.cohort_size)),
     total_lys |-> RDiv(model.totals.total_ly, FromInt(model.cohort_size)),
     undiscounted_cost |-> model.totals.undiscounted_cost,
     undiscounted_qalys |-> RDiv(model.totals.undiscounted_qaly, FromInt(model.cohort_size))]

FlexIdle == [pc |-> "idle"]

\* the model objects FlexibleMarkovModel(config, states, initial_distribution)
\* with the strategy they will simulate
FlexInit ==
    flex \in { [pc |-> "constructed",
                state_types |-> ty,
                cohort_size |-> cs,
                n_cycles |-> h,
                discount_rate_costs |-> Zero,
                discount_rate_outcomes |-> Zero,
                half_cycle_correction |-> TRUE,
                totals |-> ZeroTotals,
                results |-> [none |-> TRUE],
                initial_distribution |-> InitialDistributionOf(cs, idist),
                transitions |-> tr,
                matrix |-> ZeroMatrix,
                matrix_cycle |-> 0,
                trace |-> <<>>] :
               ty \in StateTypeChoices, cs \in CohortSizes, h \in 0..MaxHorizon,
               idist \in InitialDistributions,
               tr \in TransitionLists }

\* a call of build_transition_matrix(transitions, cycle) on the model
FlexBuildMatrix ==
    /\ flex.pc = "constructed"
    /\ \E cycle \in 0..MaxHorizon :
          flex' = [flex EXCEPT !.pc = "built",
                     !.matrix = BuildTransitionMatrix(flex.state_types,
                                                      flex.transitions, cycle),
                     !.matrix_cycle = cycle]
    /\ UNCHANGED <<core, tree, psa, voi, bim, tornado, icer_calc, np_random, surv, sim>>

\* run_simulation: trace[0] = initial_distribution
FlexRunStart ==
    /\ flex.pc = "constructed"
    /\ flex' = [flex EXCEPT !.pc = "running",
                            !.trace = <<flex.initial_distribution>>,
                            !.totals = ZeroTotals]
    /\ UNCHANGED <<core, tree, psa, voi, bim, tornado, icer_calc, np_random, surv, sim>>

\* run_simulation: one pass of the loop over the cycles
FlexRunCycle ==
    /\ flex.pc = "running"
    /\ Len(flex.trace) <= flex.n_cycles
    /\ LET cycle == Len(flex.trace)
           matrix == BuildTransitionMatrix(flex.state_types, flex.transitions, cycle)
       IN  flex' = [flex EXCEPT !.matrix = matrix,
                                !.matrix_cycle = cycle,
                                !.trace = Append(flex.trace,
                                                 VecMat(flex.trace[cycle], matrix)),
                                !.totals = TotalsAfterCycle(
                                               flex, VecMat(flex.trace[cycle], matrix),
                                               cycle)]
    /\ UNCHANGED <<core, tree, psa, voi, bim, tornado, icer_calc, np_random, surv, sim>>

\* run_simulation: the loop is over, the results are returned
FlexRunFinish ==
    /\ flex.pc = "running"
    /\ Len(flex.trace) = flex.n_cycles + 1
    /\ flex' = [flex EXCEPT !.pc = "done", !.results = StrategyResults(flex)]
    /\ UNCHANGED <<core, tree, psa, voi, bim, tornado, icer_calc, np_random, surv, sim>>

CoreIdle == [pc |-> "idle"]
TreeIdle == [pc |-> "idle"]
PsaIdle == [pc |-> "idle"]
VoiIdle == [pc |-> "idle"]
BimIdle == [pc |-> "idle"]
TornadoIdle == [pc |-> "idle"]
IcerIdle == [pc |-> "idle"]
SurvIdle == [pc |-> "idle"]
SimIdle == [pc |-> "idle"]

\* the state of the process-wide generator of numpy.random when the process
\* starts
NpRandomFresh == [seeded |-> FALSE, draws |-> 0]

\* the engines added to the four above are idle and the process-wide
\* generator is untouched
RestIdle ==
    /\ voi = VoiIdle
    /\ bim = BimIdle
    /\ tornado = TornadoIdle
    /\ icer_calc = IcerIdle
    /\ np_random = NpRandomFresh
    /\ surv = SurvIdle
    /\ sim = SimIdle

InitFlex == FlexInit /\ core = CoreIdle /\ tree = TreeIdle /\ psa = PsaIdle /\ RestIdle

NextFlex == FlexBuildMatrix \/ FlexRunStart \/ FlexRunCycle \/ FlexRunFinish

SpecFlex == InitFlex /\ [][NextFlex]_vars

-----------------------------------------------------------------------------
(* Fixed 3-state Markov model: engine/markov/core.py *)

\* pow10[k] = 10^k
Pow10(k) == IF k = 0 THEN 1 ELSE IF k = 2 THEN 100 ELSE 10000

\* floor(a / b) for b > 0
FloorDiv(a, b) == IF a >= 0 THEN a \div b ELSE -((-a + b - 1) \div b)

\* round(x, digits): to the nearest multiple of 10^-digits, a tie to the even
\* one (Python rounds the double's exact value; on rationals that is this)
Round(x, digits) ==
    LET scaled == RMul(x, FromInt(Pow10(digits)))
        lo == FloorDiv(scaled.n, scaled.d)
        rem2 == 2 * (scaled.n - lo * scaled.d)
        q == IF rem2 < scaled.d THEN lo
             ELSE IF rem2 > scaled.d THEN lo + 1
             ELSE IF lo % 2 = 0 THEN lo ELSE lo + 1
    IN  Rat(q, Pow10(digits))

\* the defaults of the params.get calls whose keys the inputs may omit
DefaultProbSToD == Rat(2, 100)
DefaultUtilityStable == Rat(85, 100)
DefaultUtilityProgression == Rat(50, 100)

\* the willingness-to-pay threshold of compare_strategies
WtpThreshold == 30000

Restrict(f, keys) == [k \in keys |-> f[k]]

\* MarkovModel.build_transition_matrix; ok = FALSE: ValueError
CoreBuildTransitionMatrix(params) ==
    LET p_sp == params.prob_s_to_p
        p_sd == params.prob_s_to_d
        p_pd == params.prob_p_to_d
        p_ss == RSub(RSub(One, p_sp), p_sd)
        p_pp == RSub(One, p_pd)
    IN  IF RLt(One, RAdd(p_sp, p_sd))
        THEN [ok |-> FALSE]
        ELSE [ok |-> TRUE,
              matrix |-> << <<p_ss, p_sp, p_sd>>,
                            <<Zero, p_pp, p_pd>>,
                            <<Zero, Zero, One>> >>]

RECURSIVE RunCohortSimulation(_, _, _)
\* MarkovModel.run_cohort_simulation: trace[0..n_cycles], in a sequence
\* indexed from 1
RunCohortSimulation(transition_matrix, n_cycles, cohort_size) ==
    IF n_cycles = 0
    THEN << <<FromInt(cohort_size), Zero, Zero>> >>
    ELSE LET trace == RunCohortSimulation(transition_matrix, n_cycles - 1, cohort_size)
         IN  Append(trace, VecMat(trace[n_cycles], transition_matrix))

\* 1 / ((1 + rate) ** cycle)
DiscountFactor(rate, cycle) == RDiv(One, RPow(RAdd(One, rate), cycle))

\* round(total_qalys / cohort_size, 4)
ReportQalys(total_qalys, cohort_size) ==
    Round(RDiv(total_qalys, FromInt(cohort_size)), 4)

\* MarkovModel.calculate_outcomes
CalculateOutcomes(trace, params, config) ==
    LET n_cycles == Len(trace) - 1
        cycle_cost(c) ==
            RAdd(RAdd(RMul(RAdd(trace[c + 1][1], trace[c + 1][2]), params.cost_drug),
                      RMul(trace[c + 1][1], params.cost_state_s)),
                 RMul(trace[c + 1][2], params.cost_state_p))
        cycle_qalys(c) ==
            RAdd(RMul(trace[c + 1][1], params.utility_stable),
                 RMul(trace[c + 1][2], params.utility_progression))
        total_cost ==
            RSum([c \in 1..n_cycles |->
                    RMul(cycle_cost(c), DiscountFactor(config.discount_rate_costs, c))])
        total_qalys ==
            RSum([c \in 1..n_cycles |->
                    RMul(cycle_qalys(c), DiscountFactor(config.discount_rate_outcomes, c))])
        total_life_years ==
            RSum([c \in 1..n_cycles |-> RAdd(trace[c + 1][1], trace[c + 1][2])])
    IN  [total_cost |-> Round(total_cost, 2),
         total_qalys |-> ReportQalys(total_qalys, config.cohort_size),
         life_years |-> Round(RDiv(total_life_years, FromInt(config.cohort_size)), 2),
         state_trace |-> trace]

\* float('inf'), and the None that is reported for it
Infinity == [inf |-> TRUE]
NoneValue == [none |-> TRUE]

\* a faulty variant: a zero QALY difference gives the ratio 0
IcerOfZeroDelta(delta_cost, delta_qaly) ==
    IF delta_qaly = Zero THEN Zero ELSE RDiv(delta_cost, delta_qaly)

\* the ICER of compare_strategies
IcerOf(delta_cost, delta_qaly) ==
    IF delta_qaly = Zero THEN Infinity ELSE RDiv(delta_cost, delta_qaly)

\* the comparison at the end of compare_strategies
Comparison(results_a, results_b) ==
    LET delta_cost == RSub(results_a.total_cost, results_b.total_cost)
        delta_qaly == RSub(results_a.total_qalys, results_b.total_qalys)
        icer == IcerOf(delta_cost, delta_qaly)
        is_dominated ==
            IF delta_qaly = Zero THEN RLt(Zero, delta_cost)
            ELSE RLt(Zero, delta_cost) /\ RLt(delta_qaly, Zero)
        conclusion ==
            IF is_dominated THEN "Dominated"
            ELSE IF icer # Infinity /\ RLt(icer, FromInt(WtpThreshold))
            THEN "Cost-Effective"
            ELSE "Not Cost-Effective"
    IN  [strategy_a |-> results_a,
         strategy_b |-> results_b,
         delta_cost |-> Round(delta_cost, 2),
         delta_qaly |-> Round(delta_qaly, 4),
         icer |-> IF icer # Infinity THEN Round(icer, 2) ELSE NoneValue,
         is_dominated |-> is_dominated,
         conclusion |-> conclusion]

\* MarkovModel.compare_strategies; ok = FALSE: build_transition_matrix raised
CompareStrategies(params_a, params_b, config) ==
    LET built_a == CoreBuildTransitionMatrix(params_a)
        built_b == CoreBuildTransitionMatrix(params_b)
        n_cycles == config.time_horizon \div config.cycle_length
        results(built, params) ==
            CalculateOutcomes(
                RunCohortSimulation(built.matrix, n_cycles, config.cohort_size),
                params, config)
    IN  IF ~built_a.ok \/ ~built_b.ok
        THEN [ok |-> FALSE]
        ELSE [ok |-> TRUE,
              results |-> Comparison(results(built_a, params_a),
                                     results(built_b, params_b))]

\* run_markov_analysis: the configuration and the two parameter sets read
\* from params
ConfigOf(params) ==
    [time_horizon |-> params.time_horizon,
     cycle_length |-> 1,
     discount_rate_costs |-> params.discount_rate,
     discount_rate_outcomes |-> params.discount_rate,
     cohort_size |-> params.cohort_size]

ParamsOf(params, arm) ==
    [prob_s_to_p |-> IF arm = "a" THEN params.prob_s_to_p_a ELSE params.prob_s_to_p_b,
     prob_s_to_d |-> Get(params, "prob_s_to_d", DefaultProbSToD),
     prob_p_to_d |-> params.prob_p_to_d,
     cost_drug |-> IF arm = "a" THEN params.cost_drug_a ELSE params.cost_drug_b,
     cost_state_s |-> params.cost_state_s,
     cost_state_p |-> params.cost_state_p,
     utility_stable |-> Get(params, "utility_stable", DefaultUtilityStable),
     utility_progression |-> Get(params, "utility_progression", DefaultUtilityProgression)]

\* the response run_markov_analysis builds from the comparison
AnalysisResponse(compared) ==
    IF ~compared.ok
    THEN [ok |-> FALSE]
    ELSE [ok |-> TRUE,
          summary |-> [icer |-> compared.results.icer,
                       delta_cost |-> compared.results.delta_cost,
                       delta_qaly |-> compared.results.delta_qaly,
                       conclusion |-> compared.results.conclusion,
                       is_dominated |-> compared.results.is_dominated],
          drug_a_results |-> compared.results.strategy_a,
          drug_b_results |-> compared.results.strategy_b]

\* run_markov_analysis; ok = FALSE: the call raised
RunMarkovAnalysis(params) ==
    AnalysisResponse(CompareStrategies(ParamsOf(params, "a"), ParamsOf(params, "b"),
                                       ConfigOf(params)))

\* the parameter mappings tried
CoreFullParams ==
    { [time_horizon |-> h, discount_rate |-> r, cohort_size |-> cs,
       prob_s_to_p_a |-> pa, prob_s_to_p_b |-> pb, prob_s_to_d |-> pd,
       prob_p_to_d |-> ppd, cost_drug_a |-> ca, cost_drug_b |-> cb,
       cost_state_s |-> FromInt(2), cost_state_p |-> FromInt(5),
       utility_stable |-> us, utility_progression |-> Rat(1, 2)] :
      h \in 0..MaxHorizon, r \in {Zero, Rat(1, 4)}, cs \in {1, 2},
      pa \in {Zero, Rat(1, 2)}, pb \in {Zero, Rat(1, 2)},
      pd \in {Zero, Rat(3, 4)}, ppd \in {Rat(1, 4), FromInt(2)},
      ca \in {FromInt(1), FromInt(3)}, cb \in {FromInt(1)},
      us \in {Rat(1, 3), One} }

\* the keys a caller may leave to their defaults
CoreOptionalKeys == {"prob_s_to_d", "utility_stable", "utility_progression"}

CoreParamSets ==
    CoreFullParams \cup
    { Restrict(full, DOMAIN full \ CoreOptionalKeys) :
        full \in { f \in CoreFullParams : f.prob_s_to_d = Zero /\ f.utility_stable = One } }

CoreInit == core \in { [pc |-> "called", params |-> ps] : ps \in CoreParamSets }

\* run_markov_analysis(params) returns
CoreReturn ==
    /\ core.pc = "called"
    /\ \E result \in {RunMarkovAnalysis(core.params)} :
           /\ result.ok
           /\ core' = [pc |-> "returned", params |-> core.params, result |-> result]
    /\ UNCHANGED <<flex, tree, psa, voi, bim, tornado, icer_calc, np_random, surv, sim>>

\* run_markov_analysis(params) raises the ValueError of build_transition_matrix
CoreRaise ==
    /\ core.pc = "called"
    /\ ~RunMarkovAnalysis(core.params).ok
    /\ core' = [core EXCEPT !.pc = "raised"]
    /\ UNCHANGED <<flex, tree, psa, voi, bim, tornado, icer_calc, np_random, surv, sim>>

InitCore == CoreInit /\ flex = FlexIdle /\ tree = TreeIdle /\ psa = PsaIdle /\ RestIdle

NextCore == CoreReturn \/ CoreRaise

SpecCore == InitCore /\ [][NextCore]_vars

\* both cohort simulators
InitCohort == InitFlex \/ InitCore

NextCohort == NextFlex \/ NextCore

SpecCohort == InitCohort /\ [][NextCohort]_vars

-----------------------------------------------------------------------------
(* Decision tree: engine/decision_tree/core.py *)

\* DecisionTreeConfig.wtp_threshold
DefaultWtpThreshold == 30000

\* bound: the largest n_steps of a one-way sensitivity sweep
MaxSteps == 3

\* the root of the tree, and the nodes in the order build_from_dict inserts
\* them into self.nodes
RootId == 1
NodeIds == 1..5

Node(name, node_type, probability, payoff, children) ==
    [name |-> name, node_type |-> node_type, probability |-> probability,
     payoff |-> payoff, children |-> children,
     expected_cost |-> NoneValue, expected_effectiveness |-> NoneValue,
     optimal_choice |-> NoneValue]

Payoff(cost, effectiveness) == [cost |-> cost, effectiveness |-> effectiveness]

\* build_from_dict on a decision between a chance strategy with two terminal
\* outcomes and a terminal strategy
BuildFromDict(p_success, c_success, p_failure, e_standard) ==
    << Node("Treatment Decision", "decision", NoneValue, NoneValue, <<2, 5>>),
       Node("New Treatment", "chance", NoneValue, NoneValue, <<3, 4>>),
       Node("Success", "terminal", p_success, Payoff(c_success, One), <<>>),
       Node("Failure", "terminal", p_failure, Payoff(FromInt(20), Zero), <<>>),
       Node("Standard Care", "terminal", NoneValue, Payoff(FromInt(5), e_standard), <<>>) >>

\* the trees tried: a terminal with an unset, a zero and a positive
\* probability, with a zero and a positive cost
TreeInputs ==
    { BuildFromDict(ps, cs, pf, es) :
        ps \in {NoneValue, Zero, Rat(3, 4)}, cs \in {Zero, FromInt(10)},
        pf \in {Rat(1, 4), Rat(1, 2)}, es \in {Zero, Rat(1, 2), Rat(3, 4)} }

\* Python truth of a number or None
Truthy(v) == v # NoneValue /\ v # Zero

\* a or b
Or(a, b) == IF Truthy(a) THEN a ELSE b

\* child.probability or 0
ProbOrZero(node) == Or(node.probability, Zero)

\* the net monetary benefit of a child of a decision node
Nmb(node, wtp_threshold) ==
    RSub(RMul(node.expected_effectiveness, FromInt(wtp_threshold)), node.expected_cost)

\* rollback on a terminal node
RollbackTerminal(node) ==
    [node EXCEPT
        !.expected_cost = IF node.payoff # NoneValue THEN node.payoff.cost ELSE Zero,
        !.expected_effectiveness =
            IF node.payoff # NoneValue THEN node.payoff.effectiveness ELSE Zero]

\* a faulty variant: the weighted sum is not divided by the sum of the
\* probabilities
ChanceAverageUnnormalised(nodes, id) ==
    [cost |-> RSum([k \in 1..Len(nodes[id].children) |->
                      RMul(nodes[nodes[id].children[k]].expected_cost,
                           ProbOrZero(nodes[nodes[id].children[k]]))]),
     effectiveness |->
             RSum([k \in 1..Len(nodes[id].children) |->
                      RMul(nodes[nodes[id].children[k]].expected_effectiveness,
                           ProbOrZero(nodes[nodes[id].children[k]]))])]

\* the probability-weighted average of the children's expected values
ChanceAverage(nodes, id) ==
    LET children == nodes[id].children
        probs == [k \in 1..Len(children) |-> ProbOrZero(nodes[children[k]])]
        sum == RSum(probs)
        total_prob == IF sum = Zero THEN One ELSE sum
    IN  [cost |-> RSum([k \in 1..Len(children) |->
                          RDiv(RMul(nodes[children[k]].expected_cost, probs[k]), total_prob)]),
         effectiveness |->
                 RSum([k \in 1..Len(children) |->
                          RDiv(RMul(nodes[children[k]].expected_effectiveness, probs[k]),
                               total_prob)])]

\* a faulty variant: the weighted average is added to the value of the last roll-back
RollbackChanceAccumulating(nodes, id) ==
    LET avg == ChanceAverage(nodes, id)
    IN  [nodes[id] EXCEPT
            !.expected_cost = RAdd(Or(nodes[id].expected_cost, Zero), avg.cost),
            !.expected_effectiveness =
                RAdd(Or(nodes[id].expected_effectiveness, Zero), avg.effectiveness)]

\* rollback on a chance node whose children have been rolled back
RollbackChance(nodes, id) ==
    LET avg == ChanceAverage(nodes, id)
    IN  [nodes[id] EXCEPT !.expected_cost = avg.cost,
                          !.expected_effectiveness = avg.effectiveness]

RECURSIVE BestChildLast(_, _, _, _, _)
\* a faulty variant: a later child of equal net monetary benefit replaces
\* the earlier one
BestChildLast(nodes, children, k, best, wtp_threshold) ==
    IF k > Len(children) THEN best
    ELSE IF best = 0 \/ RLe(Nmb(nodes[best], wtp_threshold),
                            Nmb(nodes[children[k]], wtp_threshold))
    THEN BestChildLast(nodes, children, k + 1, children[k], wtp_threshold)
    ELSE BestChildLast(nodes, children, k + 1, best, wtp_threshold)

RECURSIVE BestChild(_, _, _, _, _)
\* the loop of a decision node: the first child of the largest net monetary
\* benefit (0: no child)
BestChild(nodes, children, k, best, wtp_threshold) ==
    IF k > Len(children) THEN best
    ELSE IF best = 0 \/ RLt(Nmb(nodes[best], wtp_threshold),
                            Nmb(nodes[children[k]], wtp_threshold))
    THEN BestChild(nodes, children, k + 1, children[k], wtp_threshold)
    ELSE BestChild(nodes, children, k + 1, best, wtp_threshold)

\* rollback on a decision node whose children have been rolled back
RollbackDecision(nodes, id, wtp_threshold) ==
    LET best == BestChild(nodes, nodes[id].children, 1, 0, wtp_threshold)
    IN  IF best # 0
        THEN [nodes[id] EXCEPT !.expected_cost = nodes[best].expected_cost,
                               !.expected_effectiveness = nodes[best].expected_effectiveness,
                               !.optimal_choice = nodes[best].name]
        ELSE [nodes[id] EXCEPT !.expected_cost = Zero,
                               !.expected_effectiveness = Zero]

RECURSIVE Rollback(_, _, _)
RECURSIVE RollbackChildren(_, _, _, _)
\* the recursive calls of rollback on the children, in order
RollbackChildren(nodes, children, k, wtp_threshold) ==
    IF k > Len(children) THEN nodes
    ELSE RollbackChildren(Rollback(nodes, children[k], wtp_threshold),
                          children, k + 1, wtp_threshold)

\* DecisionTree.rollback(node): the nodes after the call
Rollback(nodes, id, wtp_threshold) ==
    IF nodes[id].node_type = "terminal"
    THEN [nodes EXCEPT ![id] = RollbackTerminal(nodes[id])]
    ELSE LET done == CHOOSE d \in {RollbackChildren(nodes, nodes[id].children, 1, wtp_threshold)} : TRUE
         IN  IF nodes[id].node_type = "chance"
             THEN [done EXCEPT ![id] = RollbackChance(done, id)]
             ELSE [done EXCEPT ![id] = RollbackDecision(done, id, wtp_threshold)]

\* the pair rollback returns
RollbackResult(nodes, id) ==
    <<nodes[id].expected_cost, nodes[id].expected_effectiveness>>

\* DecisionTree.get_strategy_results: the nodes after the roll-back of every
\* child of a decision root
GetStrategyResults(nodes, wtp_threshold) ==
    IF nodes[RootId].node_type # "decision" THEN nodes
    ELSE RollbackChildren(nodes, nodes[RootId].children, 1, wtp_threshold)

\* child.probability if child.probability else 1.0
ProbOrOne(node) == IF Truthy(node.probability) THEN node.probability ELSE One

\* the outcome listed for a terminal node
TerminalOutcome(node, cumulative_prob) ==
    [name |-> node.name,
     probability |-> cumulative_prob,
     cost |-> IF node.payoff # NoneValue THEN node.payoff.cost ELSE Zero,
     effectiveness |-> IF node.payoff # NoneValue THEN node.payoff.effectiveness ELSE Zero]

RECURSIVE CollectTerminalOutcomes(_, _, _)
RECURSIVE CollectChildren(_, _, _, _)
\* the loop of _collect_terminal_outcomes over the children from the k-th on
CollectChildren(nodes, children, k, cumulative_prob) ==
    IF k > Len(children) THEN <<>>
    ELSE CollectTerminalOutcomes(nodes, children[k],
                                 RMul(cumulative_prob, ProbOrOne(nodes[children[k]])))
         \o CollectChildren(nodes, children, k + 1, cumulative_prob)

\* DecisionTree._collect_terminal_outcomes(node, cumulative_prob)
CollectTerminalOutcomes(nodes, id, cumulative_prob) ==
    IF nodes[id].node_type = "terminal"
    THEN <<TerminalOutcome(nodes[id], cumulative_prob)>>
    ELSE CollectChildren(nodes, nodes[id].children, 1, cumulative_prob)

\* the StrategyResult of one child of the root, rolled back
StrategyResult(rolled, id) ==
    [strategy_name |-> rolled[id].name,
     expected_cost |-> rolled[id].expected_cost,
     expected_effectiveness |-> rolled[id].expected_effectiveness,
     probability_weighted_outcomes |-> CollectTerminalOutcomes(rolled, id, One)]

\* the list get_strategy_results returns, from the nodes after its roll-backs
StrategyResultsOf(rolled) ==
    IF rolled[RootId].node_type # "decision" THEN <<>>
    ELSE [k \in 1..Len(rolled[RootId].children) |->
            StrategyResult(rolled, rolled[RootId].children[k])]

\* np.linspace(low_value, high_value, n_steps)
Linspace(low_value, high_value, n_steps) ==
    [i \in 1..n_steps |->
        IF n_steps = 1 THEN low_value
        ELSE RAdd(low_value,
                  RDiv(RMul(FromInt(i - 1), RSub(high_value, low_value)),
                       FromInt(n_steps - 1)))]

\* the first node of self.nodes whose name matches the path (0: none); no
\* name tried is a part of another node's name
FindNode(nodes, node_name) ==
    IF \E id \in NodeIds : nodes[id].name = node_name
    THEN CHOOSE id \in NodeIds :
            /\ nodes[id].name = node_name
            /\ \A other \in NodeIds : nodes[other].name = node_name => id <= other
    ELSE 0

\* the attribute of a node a sweep reads and writes (None when the node has
\* no payoff to hold it)
Attribute(node, attribute) ==
    IF attribute = "probability" THEN node.probability
    ELSE IF node.payoff = NoneValue THEN NoneValue
    ELSE IF attribute = "cost" THEN node.payoff.cost
    ELSE node.payoff.effectiveness

\* the node with the attribute assigned; a payoff attribute of a node
\* without payoff is left alone
SetAttribute(node, attribute, value) ==
    IF attribute = "probability" THEN [node EXCEPT !.probability = value]
    ELSE IF node.payoff = NoneValue THEN node
    ELSE IF attribute = "cost" THEN [node EXCEPT !.payoff.cost = value]
    ELSE [node EXCEPT !.payoff.effectiveness = value]

\* original_value = original_value or <the attribute's current value>
RememberOriginal(original_value, current) == Or(original_value, current)

RECURSIVE Sweep(_, _, _, _, _, _, _)
\* the loop of one_way_sensitivity over the values: [nodes, original_value]
\* after it
Sweep(nodes, target, attribute, values, k, original_value, wtp_threshold) ==
    IF k > Len(values) THEN [nodes |-> nodes, original_value |-> original_value]
    ELSE LET writes == attribute = "probability" \/ nodes[target].payoff # NoneValue
             original == IF writes
                         THEN RememberOriginal(original_value,
                                               Attribute(nodes[target], attribute))
                         ELSE original_value
             assigned == [nodes EXCEPT
                            ![target] = SetAttribute(nodes[target], attribute, values[k])]
             rolled == Rollback(assigned, RootId, wtp_threshold)
         IN  Sweep(GetStrategyResults(rolled, wtp_threshold), target, attribute,
                   values, k + 1, original, wtp_threshold)

\* DecisionTree.one_way_sensitivity on a found node: the nodes after the call
OneWaySensitivity(nodes, target, attribute, low_value, high_value, n_steps, wtp_threshold) ==
    LET swept == Sweep(nodes, target, attribute,
                       Linspace(low_value, high_value, n_steps), 1, NoneValue,
                       wtp_threshold)
    IN  IF swept.original_value # NoneValue
        THEN [swept.nodes EXCEPT
                ![target] = SetAttribute(swept.nodes[target], attribute,
                                         swept.original_value)]
        ELSE swept.nodes

\* the node names, attributes and ranges the sweeps are called with
SweepNames == {"Success", "Standard Care", "New Treatment", "Missing"}
SweepAttributes == {"probability", "cost", "effectiveness"}
SweepRanges == { <<Zero, One>>, <<Rat(1, 4), Rat(3, 4)>> }

\* a tree built by build_from_dict.  Its caller rolls it back or not, then
\* calls rollback or one_way_sensitivity, then may roll back once more; last
\* records the operation called last, before the nodes as they were when it
\* was called
TreeInit ==
    tree \in { [pc |-> "built", nodes |-> t, wtp_threshold |-> DefaultWtpThreshold,
                 last |-> [op |-> "build"], before |-> t, returned |-> NoneValue,
                 returned_before |-> NoneValue] :
                t \in TreeInputs }

\* tree.rollback()
TreeRollback ==
    /\ tree.pc \in {"built", "rolled_back", "swept"}
    /\ LET nodes == Rollback(tree.nodes, RootId, tree.wtp_threshold)
       IN  tree' = [tree EXCEPT
                      !.pc = IF tree.pc = "built" THEN "rolled_back" ELSE "finished",
                      !.nodes = nodes,
                      !.last = [op |-> "rollback", unmodified |-> tree.pc = "rolled_back"],
                      !.before = tree.nodes,
                      !.returned = RollbackResult(nodes, RootId),
                      !.returned_before = tree.returned]
    /\ UNCHANGED <<flex, core, psa, voi, bim, tornado, icer_calc, np_random, surv, sim>>

\* tree.one_way_sensitivity(name/attribute, low_value, high_value, n_steps)
TreeOneWaySensitivity ==
    /\ tree.pc \in {"built", "rolled_back"}
    /\ \E node_name \in SweepNames, attribute \in SweepAttributes,
          range \in SweepRanges, n_steps \in 0..MaxSteps :
          LET target == FindNode(tree.nodes, node_name)
          IN  tree' = [tree EXCEPT
                         !.pc = "swept",
                         !.nodes = IF target = 0 THEN tree.nodes
                                   ELSE OneWaySensitivity(tree.nodes, target, attribute,
                                                          range[1], range[2], n_steps,
                                                          tree.wtp_threshold),
                         !.last = [op |-> "one_way_sensitivity", target |-> target,
                                   attribute |-> attribute,
                                   rolled_back |-> tree.pc = "rolled_back"],
                         !.before = tree.nodes,
                         !.returned = NoneValue,
                         !.returned_before = tree.returned]
    /\ UNCHANGED <<flex, core, psa, voi, bim, tornado, icer_calc, np_random, surv, sim>>

\* tree.get_strategy_results()
TreeGetStrategyResults ==
    /\ tree.pc \in {"built", "rolled_back"}
    /\ \E rolled \in {GetStrategyResults(tree.nodes, tree.wtp_threshold)} :
          tree' = [tree EXCEPT
                     !.pc = "collected",
                     !.nodes = rolled,
                     !.last = [op |-> "get_strategy_results"],
                     !.before = tree.nodes,
                     !.returned = StrategyResultsOf(rolled),
                     !.returned_before = tree.returned]
    /\ UNCHANGED <<flex, core, psa, voi, bim, tornado, icer_calc, np_random, surv, sim>>

InitTree == TreeInit /\ flex = FlexIdle /\ core = CoreIdle /\ psa = PsaIdle /\ RestIdle

NextTree == TreeRollback \/ TreeOneWaySensitivity \/ TreeGetStrategyResults

SpecTree == InitTree /\ [][NextTree]_vars

-----------------------------------------------------------------------------
(* Probabilistic sensitivity analysis: engine/sensitivity/probabilistic.py *)

\* bound: the largest n_iterations
MaxIterations == 2

\* the grid of willingness-to-pay thresholds: np.linspace(0, 100000, 100)
CeacMaxWtp == 100000
CeacPoints == 100

\* psa_iterations[:1000]
ResponseCap == 1000

\* The generator.  np.random.default_rng(seed) is a deterministic function of
\* a seed that is not None and draws its state from the system's entropy for
\* None; every draw is a deterministic function of the state and advances it.
\* The model keeps that and shrinks the state to four values.
RngStates == 0..3

RngNext(state) == (3 * state + 1) % 4

SeedState(seed) == (seed.seed * 3 + 2) % 4

\* a faulty variant: the seed is dropped: the state always comes from the entropy
DefaultRngUnseeded(seed, entropy) == entropy

\* np.random.default_rng(seed)
DefaultRng(seed, entropy) == IF seed = NoneValue THEN entropy ELSE SeedState(seed)

\* the standard normal deviate a state yields
NormalTable == <<-1, 0, 1, 2>>

\* e, to two decimals
EulerNumber == Rat(272, 100)

\* e ** k for an integer k
Exp(k) == IF k >= 0 THEN RPow(EulerNumber, k) ELSE RDiv(One, RPow(EulerNumber, -k))

\* sample_from_distribution: ok = FALSE for the ValueError of an unsupported
\* type; every supported type takes one draw
SampleFromDistribution(dist_config, state) ==
    LET dist_type == Get(dist_config, "type", "normal")
    IN  IF dist_type = "beta"
        THEN LET alpha == Get(dist_config, "alpha", 1)
                 beta == Get(dist_config, "beta", 1)
             IN  [ok |-> TRUE, value |-> Rat(alpha + state, alpha + beta + 3)]
        ELSE IF dist_type = "gamma"
        THEN LET shape == Get(dist_config, "shape", One)
                 scale == Get(dist_config, "scale", One)
             IN  [ok |-> TRUE,
                  value |-> RMul(RMul(shape, scale), Rat(state + 1, 2))]
        ELSE IF dist_type = "normal"
        THEN LET mean == Get(dist_config, "mean", Zero)
                 std == Get(dist_config, "std", One)
             IN  [ok |-> TRUE,
                  value |-> RAdd(mean, RMul(std, FromInt(NormalTable[state + 1])))]
        ELSE IF dist_type = "lognormal"
        THEN LET mean == Get(dist_config, "mean", 0)
                 std == Get(dist_config, "std", 1)
             IN  [ok |-> TRUE, value |-> Exp(mean + std * NormalTable[state + 1])]
        ELSE [ok |-> FALSE]

RECURSIVE SampleParams(_, _, _, _, _)
\* the loop over distributions.items(): [ok, params, rng] after it
SampleParams(base_params, sampled_params, distributions, k, state) ==
    IF k > Len(distributions)
    THEN [ok |-> TRUE, params |-> sampled_params, rng |-> state]
    ELSE LET param_name == distributions[k][1]
             drawn == SampleFromDistribution(distributions[k][2], state)
         IN  IF param_name \notin DOMAIN base_params
             THEN SampleParams(base_params, sampled_params, distributions, k + 1, state)
             ELSE IF ~drawn.ok
             THEN [ok |-> FALSE]
             ELSE SampleParams(base_params,
                               [sampled_params EXCEPT ![param_name] = drawn.value],
                               distributions, k + 1, RngNext(state))

RECURSIVE Insert(_, _)
\* x put into the sorted sequence s
Insert(s, x) ==
    IF s = <<>> THEN <<x>>
    ELSE IF RLe(x, s[1]) THEN <<x>> \o s
    ELSE <<s[1]>> \o Insert(Tail(s), x)

RECURSIVE Sorted(_)
Sorted(s) == IF s = <<>> THEN <<>> ELSE Insert(Sorted(Tail(s)), s[1])

\* np.percentile(values, q) for q = per_mille / 10 on a non-empty list:
\* linear interpolation between the closest ranks
Percentile(values, per_mille) ==
    LET sorted == Sorted(values)
        n == Len(sorted)
        pos == Rat(per_mille * (n - 1), 1000)
        lo == pos.n \div pos.d
        frac == RSub(pos, FromInt(lo))
    IN  IF lo + 1 >= n THEN sorted[n]
        ELSE RAdd(sorted[lo + 1], RMul(frac, RSub(sorted[lo + 2], sorted[lo + 1])))

\* np.mean, np.median
Mean(values) == RDiv(RSum(values), FromInt(Len(values)))
Median(values) == Percentile(values, 500)

\* round(x, 2) if x else None
RoundedOrNone(x) == IF Truthy(x) THEN Round(x, 2) ELSE NoneValue

\* the ICERs that are not None, in order
FiniteIcers(psa_iterations) ==
    SelectSeq(psa_iterations, LAMBDA it : it.icer # NoneValue)

\* whether calculate_ceac counts an iteration at a threshold
IsCostEffective(iteration, wtp) ==
    \/ RLt(iteration.delta_cost, Zero) /\ RLt(Zero, iteration.delta_qaly)
    \/ iteration.icer # NoneValue /\ RLt(iteration.icer, wtp)

\* calculate_ceac on a non-empty list of iterations
CalculateCeac(psa_iterations, wtp_range) ==
    [w \in 1..Len(wtp_range) |->
        LET count == Cardinality({ k \in 1..Len(psa_iterations) :
                                     IsCostEffective(psa_iterations[k], wtp_range[w]) })
        IN  [wtp |-> Round(wtp_range[w], 2),
             prob_ce |-> Round(Rat(count, Len(psa_iterations)), 4)]]

\* the end of run_psa, after the loop: the statistics and the CEAC; dividing
\* by len(psa_iterations) raises when no iteration was recorded
PsaResult(psa_iterations) ==
    LET finite == FiniteIcers(psa_iterations)
        icers == [k \in 1..Len(finite) |-> finite[k].icer]
        mean_icer == IF icers # <<>> THEN Mean(icers) ELSE NoneValue
        median_icer == IF icers # <<>> THEN Median(icers) ELSE NoneValue
        ci_lower == IF icers # <<>> THEN Percentile(icers, 25) ELSE NoneValue
        ci_upper == IF icers # <<>> THEN Percentile(icers, 975) ELSE NoneValue
    IN  IF psa_iterations = <<>> /\ CeacPoints > 0
        THEN [raised |-> "ZeroDivisionError"]
        ELSE [raised |-> "no",
              n_iterations |-> Len(psa_iterations),
              statistics |-> [mean_icer |-> RoundedOrNone(mean_icer),
                              median_icer |-> RoundedOrNone(median_icer),
                              ci_lower |-> RoundedOrNone(ci_lower),
                              ci_upper |-> RoundedOrNone(ci_upper)],
              psa_iterations |->
                  SubSeq(psa_iterations, 1,
                         IF Len(psa_iterations) < ResponseCap
                         THEN Len(psa_iterations) ELSE ResponseCap),
              ceac_data |-> CalculateCeac(psa_iterations,
                                          Linspace(Zero, FromInt(CeacMaxWtp), CeacPoints))]

\* the base parameter mappings, distributions (in the order of the dict) and
\* seeds the analysis is called with
PsaBaseParams ==
    { [time_horizon |-> 2, discount_rate |-> r, cohort_size |-> 1,
       prob_s_to_p_a |-> Rat(1, 4), prob_s_to_p_b |-> Rat(1, 2),
       prob_s_to_d |-> Zero, prob_p_to_d |-> Rat(1, 2),
       cost_drug_a |-> FromInt(3), cost_drug_b |-> FromInt(1),
       cost_state_s |-> FromInt(2), cost_state_p |-> FromInt(5),
       utility_stable |-> One, utility_progression |-> Rat(1, 2)] :
      r \in {Zero, Rat(1, 4)} }

PsaDistributions ==
    { << >>,
      << <<"prob_s_to_p_a", [type |-> "beta", alpha |-> 1, beta |-> 2]>> >>,
      << <<"prob_s_to_p_a", [type |-> "normal", mean |-> Rat(1, 2), std |-> Rat(1, 2)]>>,
         <<"cost_drug_a", [type |-> "gamma", shape |-> FromInt(2)]>> >>,
      << <<"prob_s_to_p_a", [type |-> "normal", mean |-> Rat(1, 2), std |-> Rat(1, 2)]>> >>,
      << <<"not_a_parameter", [type |-> "beta"]>>,
         <<"utility_stable", [std |-> Rat(1, 4), mean |-> Rat(3, 4)]>> >>,
      << <<"cost_state_p", [type |-> "lognormal"]>> >>,
      << <<"cost_drug_b", [type |-> "uniform"]>> >> }

\* seed = None, 1, 2
PsaSeeds == {NoneValue, [seed |-> 1], [seed |-> 2]}

\* two calls of run_psa, one after the other, with the same base_params,
\* distributions and n_iterations and each with its own seed; skipped is the
\* history of the call at hand: the numbers of the iterations whose model run
\* raised; sampled_params is the mapping the last iteration ran the model with
PsaInit ==
    psa \in { [pc |-> "called", call |-> 1,
                base_params |-> bp, distributions |-> ds, n_iterations |-> n,
                seeds |-> <<s1, s2>>,
                rng |-> 0, i |-> 0, psa_iterations |-> <<>>, skipped |-> {},
                sampled_params |-> NoneValue,
                results |-> <<>>] :
               bp \in PsaBaseParams, ds \in PsaDistributions,
               n \in 0..MaxIterations, s1 \in PsaSeeds, s2 \in PsaSeeds }

\* rng = np.random.default_rng(seed)
PsaStart ==
    /\ psa.pc = "called"
    /\ \E entropy \in RngStates :
          psa' = [psa EXCEPT !.pc = "looping",
                             !.rng = DefaultRng(psa.seeds[psa.call], entropy),
                             !.i = 0,
                             !.psa_iterations = <<>>,
                             !.skipped = {},
                             !.sampled_params = NoneValue]
    /\ UNCHANGED <<flex, core, tree, voi, bim, tornado, icer_calc, np_random, surv, sim>>

\* the parameters sampled in the iteration at hand
PsaSampled ==
    SampleParams(psa.base_params, psa.base_params, psa.distributions, 1, psa.rng)

\* the call is over: the next call starts, or both are done
PsaEnd(result) ==
    [psa EXCEPT !.pc = IF psa.call = 1 THEN "called" ELSE "done",
                !.call = IF psa.call = 1 THEN 2 ELSE psa.call,
                !.results = Append(psa.results, result)]

\* a faulty variant: the records are numbered from 0
IterationRecordFromZero(i, summary) ==
    [iteration |-> i,
     delta_cost |-> summary.delta_cost,
     delta_qaly |-> summary.delta_qaly,
     icer |-> summary.icer]

\* the record appended for iteration i of range(n_iterations)
IterationRecord(i, summary) ==
    [iteration |-> i + 1,
     delta_cost |-> summary.delta_cost,
     delta_qaly |-> summary.delta_qaly,
     icer |-> summary.icer]

\* an iteration whose model run returns: it is recorded
PsaIterationRecorded ==
    /\ psa.pc = "looping"
    /\ psa.i < psa.n_iterations
    /\ \E sampled \in {PsaSampled} :
          /\ sampled.ok
          /\ \E result \in {RunMarkovAnalysis(sampled.params)} :
                /\ result.ok
                /\ psa' = [psa EXCEPT
                              !.rng = sampled.rng,
                              !.i = @ + 1,
                              !.sampled_params = sampled.params,
                              !.psa_iterations =
                                  Append(@, IterationRecord(psa.i, result.summary))]
    /\ UNCHANGED <<flex, core, tree, voi, bim, tornado, icer_calc, np_random, surv, sim>>

\* an iteration whose model run raises: it is skipped
PsaIterationSkipped ==
    /\ psa.pc = "looping"
    /\ psa.i < psa.n_iterations
    /\ \E sampled \in {PsaSampled} :
          /\ sampled.ok
          /\ ~RunMarkovAnalysis(sampled.params).ok
          /\ psa' = [psa EXCEPT !.rng = sampled.rng, !.i = @ + 1,
                                !.sampled_params = sampled.params,
                                !.skipped = @ \cup {psa.i + 1}]
    /\ UNCHANGED <<flex, core, tree, voi, bim, tornado, icer_calc, np_random, surv, sim>>

\* an iteration whose sampling raises: the error leaves run_psa
PsaSamplingRaises ==
    /\ psa.pc = "looping"
    /\ psa.i < psa.n_iterations
    /\ ~PsaSampled.ok
    /\ psa' = PsaEnd([raised |-> "ValueError"])
    /\ UNCHANGED <<flex, core, tree, voi, bim, tornado, icer_calc, np_random, surv, sim>>

\* the loop is over: the statistics and the CEAC are computed, run_psa
\* returns or raises
PsaFinish ==
    /\ psa.pc = "looping"
    /\ psa.i = psa.n_iterations
    /\ psa' = PsaEnd(PsaResult(psa.psa_iterations))
    /\ UNCHANGED <<flex, core, tree, voi, bim, tornado, icer_calc, np_random, surv, sim>>

InitPsa == PsaInit /\ flex = FlexIdle /\ core = CoreIdle /\ tree = TreeIdle /\ RestIdle

NextPsa ==
    \/ PsaStart
    \/ PsaIterationRecorded
    \/ PsaIterationSkipped
    \/ PsaSamplingRaises
    \/ PsaFinish

SpecPsa == InitPsa /\ [][NextPsa]_vars

-----------------------------------------------------------------------------
(* Value of information: engine/sensitivity/value_of_information.py *)

\* bound: the largest number of iterations of a supplied PSA batch
MaxBatch == 3

\* np.linspace(0, 100000, 21), the default thresholds of the CEAC of
\* calculate_evpi
VoiCeacPoints == 21

\* the example batch of run_voi_analysis: np.random.seed(42), then 1000
\* iterations of four draws each from the process-wide generator
ExampleSeed == 42
ExampleIterations == 1000
ExampleDrawsPerIteration == 4

\* np.random.seed(seed) followed by n draws, on the process-wide generator
NpRandomSeedThenDraw(seed, n) == [seeded |-> TRUE, seed |-> seed, draws |-> n]

\* a PSAIteration; param_names and strategies are the key orders of the
\* parameters and costs dicts
PSAIteration(param_names, parameters, strategies, costs, qalys) ==
    [param_names |-> param_names, parameters |-> parameters,
     strategies |-> strategies, costs |-> costs, qalys |-> qalys]

\* the example batch, shrunk to two fixed iterations of its two strategies
ExampleBatch ==
    << PSAIteration(<<"cost_drug_a", "cost_drug_b">>,
                    [cost_drug_a |-> 3, cost_drug_b |-> 2],
                    <<"Drug A", "Drug B">>,
                    [s \in {"Drug A", "Drug B"} |-> IF s = "Drug A" THEN 3 ELSE 2],
                    [s \in {"Drug A", "Drug B"} |-> IF s = "Drug A" THEN 3 ELSE 1]),
       PSAIteration(<<"cost_drug_a", "cost_drug_b">>,
                    [cost_drug_a |-> 4, cost_drug_b |-> 1],
                    <<"Drug A", "Drug B">>,
                    [s \in {"Drug A", "Drug B"} |-> IF s = "Drug A" THEN 4 ELSE 1],
                    [s \in {"Drug A", "Drug B"} |-> IF s = "Drug A" THEN 1 ELSE 2]) >>

\* the iterations the supplied batches are made of: two strategies, one
\* strategy, no strategy
IterationPool ==
    { PSAIteration(<<"theta", "phi">>, [theta |-> 0, phi |-> 1], <<"A", "B">>,
                   [A |-> 0, B |-> 0], [A |-> 0, B |-> 0]),
      PSAIteration(<<"theta", "phi">>, [theta |-> 1, phi |-> 0], <<"A", "B">>,
                   [A |-> 0, B |-> 0], [A |-> 0, B |-> 3]),
      PSAIteration(<<"theta">>, [theta |-> 0], <<"A", "B">>,
                   [A |-> 1, B |-> 4], [A |-> 2, B |-> 1]),
      PSAIteration(<<"theta", "phi">>, [theta |-> 2, phi |-> 1], <<"A", "B">>,
                   [A |-> 2, B |-> 0], [A |-> 0, B |-> 1]),
      PSAIteration(<<"theta">>, [theta |-> 0], <<"A">>, [A |-> 1], [A |-> 1]),
      PSAIteration(<<>>, <<>>, <<>>, <<>>, <<>>) }

\* params["psa_results"], the empty list included
VoiBatches == UNION { [1..n -> IterationPool] : n \in 0..MaxBatch }

\* VOIConfig as run_voi_analysis fills it from params
VoiConfigs ==
    { [wtp_threshold |-> w, population_size |-> ps, decision_horizon |-> dh,
       annual_discount_rate |-> r] :
      w \in {0, 2}, ps \in {0, 3}, dh \in {0, 2}, r \in {Rat(1, 4)} }

\* ValueOfInformation.calculate_nmb
CalculateNmb(cost, qaly, wtp, config) ==
    qaly * (IF wtp # 0 THEN wtp ELSE config.wtp_threshold) - cost

\* nmb_matrix[i, j]
NmbMatrix(psa_results, strategies, wtp, config) ==
    [i \in 1..Len(psa_results) |->
        [j \in 1..Len(strategies) |->
            CalculateNmb(psa_results[i].costs[strategies[j]],
                         psa_results[i].qalys[strategies[j]], wtp, config)]]

\* iteration.costs[strategy] raises KeyError
MissingStrategy(psa_results, strategies) ==
    \E i \in 1..Len(psa_results) : \E j \in 1..Len(strategies) :
        strategies[j] \notin DOMAIN psa_results[i].costs

\* np.max of a non-empty row of integers
MaxOf(row) == CHOOSE m \in {row[j] : j \in 1..Len(row)} : \A j \in 1..Len(row) : row[j] <= m

RECURSIVE SumTo(_, _)
SumTo(f, k) == IF k = 0 THEN 0 ELSE SumTo(f, k - 1) + f[k]

\* np.mean of a non-empty sequence of integers
MeanOf(f) == Rat(SumTo(f, Len(f)), Len(f))

\* np.max(nmb_matrix, axis=1)
MaxPerIter(nmb_matrix) == [i \in 1..Len(nmb_matrix) |-> MaxOf(nmb_matrix[i])]

\* np.mean(nmb_matrix, axis=0)
ExpectedNmb(nmb_matrix, n_strategies) ==
    [j \in 1..n_strategies |->
        MeanOf([i \in 1..Len(nmb_matrix) |-> nmb_matrix[i][j]])]

\* np.max of a non-empty sequence of rationals
RMaxOf(f) == CHOOSE m \in {f[j] : j \in 1..Len(f)} : \A j \in 1..Len(f) : RLe(f[j], m)

\* np.argmax: the first index of the maximum (from 1)
ArgMax(f) ==
    CHOOSE j \in 1..Len(f) :
        /\ \A k \in 1..Len(f) : f[k] <= f[j]
        /\ \A k \in 1..(j - 1) : f[k] < f[j]

RArgMax(f) ==
    CHOOSE j \in 1..Len(f) :
        /\ \A k \in 1..Len(f) : RLe(f[k], f[j])
        /\ \A k \in 1..(j - 1) : RLt(f[k], f[j])

\* max(0, x)
ClampToZero(x) == IF RLt(Zero, x) THEN x ELSE Zero

\* a faulty variant: the difference is taken the other way round, unclamped
EvpiPerPatientReversed(expected_max_nmb, max_expected_nmb) ==
    RSub(max_expected_nmb, expected_max_nmb)

\* evpi_per_patient = max(0, expected_max_nmb - max_expected_nmb)
EvpiPerPatient(expected_max_nmb, max_expected_nmb) ==
    ClampToZero(RSub(expected_max_nmb, max_expected_nmb))

\* the share of the iterations in which strategy j is optimal
ProbOptimal(nmb_matrix, j) ==
    Rat(Cardinality({i \in 1..Len(nmb_matrix) : ArgMax(nmb_matrix[i]) = j}),
        Len(nmb_matrix))

\* the CEAC of calculate_evpi: per threshold, per strategy
VoiCeac(psa_results, strategies, config) ==
    [w \in 1..VoiCeacPoints |->
        [j \in 1..Len(strategies) |->
            ProbOptimal(NmbMatrix(psa_results, strategies,
                                  ((w - 1) * CeacMaxWtp) \div (VoiCeacPoints - 1), config),
                        j)]]

\* sum(1 / (1 + rate) ** t for t in range(horizon))
HorizonFactor(rate, horizon) ==
    RSum([k \in 1..horizon |-> DiscountFactor(rate, k - 1)])

\* the EVPIResult built from evpi_per_patient and the matrix
EvpiResult(evpi_per_patient, nmb_matrix, psa_results, strategies, config) ==
    [raised |-> "no",
     evpi_per_patient |-> evpi_per_patient,
     evpi_population |-> RMul(evpi_per_patient, FromInt(config.population_size)),
     evpi_decision_horizon |->
        RMul(RMul(evpi_per_patient, FromInt(config.population_size)),
             HorizonFactor(config.annual_discount_rate, config.decision_horizon)),
     optimal_strategy_current |->
        strategies[RArgMax(ExpectedNmb(nmb_matrix, Len(strategies)))],
     probability_optimal |->
        [j \in 1..Len(strategies) |-> ProbOptimal(nmb_matrix, j)],
     ceac_data |-> VoiCeac(psa_results, strategies, config)]

\* the EVPIResult built from the matrix
EvpiFromMatrix(nmb_matrix, psa_results, strategies, config) ==
    EvpiResult(EvpiPerPatient(MeanOf(MaxPerIter(nmb_matrix)),
                              RMaxOf(ExpectedNmb(nmb_matrix, Len(strategies)))),
               nmb_matrix, psa_results, strategies, config)

\* ValueOfInformation.calculate_evpi
CalculateEvpi(psa_results, strategies, config) ==
    IF psa_results = <<>> THEN [raised |-> "ValueError: No PSA results available"]
    ELSE IF MissingStrategy(psa_results, strategies) THEN [raised |-> "KeyError"]
    ELSE IF strategies = <<>> THEN [raised |-> "ValueError: zero-size array"]
    ELSE EvpiFromMatrix(NmbMatrix(psa_results, strategies, config.wtp_threshold, config),
                        psa_results, strategies, config)

\* n_bins = min(20, n_iter // 50), at least 5
NBins(n_iter) ==
    LET n == IF n_iter \div 50 < 20 THEN n_iter \div 50 ELSE 20
    IN  IF n < 5 THEN 5 ELSE n

\* r.parameters.get(parameter_name, 0) for every iteration
ParamValues(psa_results, parameter_name) ==
    [i \in 1..Len(psa_results) |->
        FromInt(Get(psa_results[i].parameters, parameter_name, 0))]

\* np.percentile(param_values, np.linspace(0, 100, n_bins + 1))[1:-1]
InnerBinEdges(param_values, n_bins) ==
    [k \in 1..(n_bins - 1) |-> Percentile(param_values, (k * 1000) \div n_bins)]

\* np.digitize(x, edges) for non-decreasing edges: the bin of x, from 0
Digitize(x, edges) == Cardinality({k \in 1..Len(edges) : RLe(edges[k], x)})

\* the mean, over the iterations of bin b, of the largest NMB of the
\* iteration; None for an empty bin
BinMean(bin_indices, max_per_iter, b) ==
    LET members == {i \in 1..Len(bin_indices) : bin_indices[i] = b}
    IN  IF members = {} THEN NoneValue
        ELSE Rat(SumTo([i \in 1..Len(bin_indices) |->
                          IF i \in members THEN max_per_iter[i] ELSE 0],
                       Len(bin_indices)),
                 Cardinality(members))

\* np.mean(conditional_max_nmb): the plain mean of the means of the bins
\* that hold an iteration
ExpectedConditionalMax(bin_indices, max_per_iter, n_bins) ==
    Mean(SelectSeq([b \in 1..n_bins |-> BinMean(bin_indices, max_per_iter, b - 1)],
                   LAMBDA m : m # NoneValue))

\* evppi_per_patient of calculate_evppi_single
EvppiPerPatient(nmb_matrix, param_values, n_strategies) ==
    ClampToZero(
        RSub(ExpectedConditionalMax(
                [i \in 1..Len(param_values) |->
                    Digitize(param_values[i],
                             InnerBinEdges(param_values, NBins(Len(param_values))))],
                MaxPerIter(nmb_matrix), NBins(Len(param_values))),
             RMaxOf(ExpectedNmb(nmb_matrix, n_strategies))))

\* min(contribution, 100)
Contribution(evppi_per_patient, evpi_per_patient) ==
    IF RLt(Zero, evpi_per_patient)
    THEN RMin(RMul(RDiv(evppi_per_patient, evpi_per_patient), FromInt(100)), FromInt(100))
    ELSE Zero

\* the EVPPIResult built from evppi_per_patient
EvppiResult(parameter_name, evppi_per_patient, evpi_result, config) ==
    [parameter_name |-> parameter_name,
     evppi_per_patient |-> evppi_per_patient,
     evppi_population |-> RMul(evppi_per_patient, FromInt(config.population_size)),
     contribution_to_evpi |-> Contribution(evppi_per_patient, evpi_result.evpi_per_patient)]

\* ValueOfInformation.calculate_evppi_single, called after calculate_evpi
\* returned on the same batch
CalculateEvppiSingle(psa_results, strategies, config, parameter_name, evpi_result) ==
    EvppiResult(parameter_name,
                EvppiPerPatient(NmbMatrix(psa_results, strategies, config.wtp_threshold, config),
                                ParamValues(psa_results, parameter_name),
                                Len(strategies)),
                evpi_result, config)

RECURSIVE InsertByContribution(_, _)
\* r put into a list sorted by contribution, largest first, behind its equals
InsertByContribution(sorted, r) ==
    IF sorted = <<>> THEN <<r>>
    ELSE IF RLt(sorted[1].contribution_to_evpi, r.contribution_to_evpi)
    THEN <<r>> \o sorted
    ELSE <<sorted[1]>> \o InsertByContribution(Tail(sorted), r)

RECURSIVE SortByContribution(_, _)
\* evppi_results.sort(key = contribution_to_evpi, reverse = True), stable
SortByContribution(results, k) ==
    IF k = 0 THEN <<>>
    ELSE InsertByContribution(SortByContribution(results, k - 1), results[k])

\* ValueOfInformation.calculate_evppi_all
CalculateEvppiAll(psa_results, strategies, config, evpi_result) ==
    IF evpi_result.raised # "no" THEN [raised |-> evpi_result.raised]
    ELSE [raised |-> "no",
          evpi |-> evpi_result,
          evppi |->
            SortByContribution(
                [k \in 1..Len(psa_results[1].param_names) |->
                    CalculateEvppiSingle(psa_results, strategies, config,
                                         psa_results[1].param_names[k], evpi_result)],
                Len(psa_results[1].param_names))]

\* add_psa_results: self.strategies
StrategiesOf(results) == IF results = <<>> THEN <<>> ELSE results[1].strategies

\* run_voi_analysis on the batch it analyses: its outcome
RunVoiAnalysis(psa_results, config) ==
    CalculateEvppiAll(psa_results, StrategiesOf(psa_results), config,
                      CalculateEvpi(psa_results, StrategiesOf(psa_results), config))

VoiInit ==
    voi \in { [pc |-> "called", psa_results |-> b, config |-> c] :
               b \in VoiBatches, c \in VoiConfigs }

\* run_voi_analysis(params) with a non-empty params["psa_results"]
VoiAnalyseSupplied ==
    /\ voi.pc = "called"
    /\ voi.psa_results # <<>>
    /\ \E outcome \in {RunVoiAnalysis(voi.psa_results, voi.config)} :
          voi' = [pc |-> "done", psa_results |-> voi.psa_results, config |-> voi.config,
                  analysed |-> voi.psa_results, outcome |-> outcome]
    /\ UNCHANGED <<flex, core, tree, psa, bim, tornado, icer_calc, np_random, surv, sim>>

\* run_voi_analysis(params) without PSA results: the example batch is drawn
\* from the process-wide generator, which is seeded first
VoiAnalyseExample ==
    /\ voi.pc = "called"
    /\ voi.psa_results = <<>>
    /\ np_random' = NpRandomSeedThenDraw(ExampleSeed,
                                         ExampleIterations * ExampleDrawsPerIteration)
    /\ \E outcome \in {RunVoiAnalysis(ExampleBatch, voi.config)} :
          voi' = [pc |-> "done", psa_results |-> voi.psa_results, config |-> voi.config,
                  analysed |-> ExampleBatch, outcome |-> outcome]
    /\ UNCHANGED <<flex, core, tree, psa, bim, tornado, icer_calc, surv, sim>>

InitVoi ==
    /\ VoiInit
    /\ flex = FlexIdle /\ core = CoreIdle /\ tree = TreeIdle /\ psa = PsaIdle
    /\ bim = BimIdle /\ tornado = TornadoIdle /\ icer_calc = IcerIdle
    /\ np_random = NpRandomFresh
    /\ surv = SurvIdle
    /\ sim = SimIdle

NextVoi == VoiAnalyseSupplied \/ VoiAnalyseExample

SpecVoi == InitVoi /\ [][NextVoi]_vars

-----------------------------------------------------------------------------
(* Budget impact: engine/budget_impact/core.py *)

\* the defaults of run_budget_impact_analysis that the inputs may leave out
DefaultTreatments == [t \in {"Standard of Care", "New Treatment"} |->
                        IF t = "Standard of Care" THEN 2800 + 500 ELSE 15000 + 200 + 800]
DefaultCurrentShares == [t \in {"Standard of Care", "New Treatment"} |->
                            IF t = "Standard of Care" THEN One ELSE Zero]
DefaultNewTreatmentName == "New Treatment"

\* int(x) for x >= 0
IntOf(x) == x.n \div x.d

\* e ** (0.75 * k): the powers of e ** 0.75, taken as 2.1
ExpThreeQuarters(k) ==
    IF k >= 0 THEN RPow(Rat(21, 10), k) ELSE RDiv(One, RPow(Rat(21, 10), -k))

RECURSIVE SumOver(_, _)
\* sum(f[k] for k in keys)
SumOver(f, keys) ==
    IF keys = {} THEN Zero
    ELSE LET k == CHOOSE x \in keys : TRUE
         IN  RAdd(f[k], SumOver(f, keys \ {k}))

\* BudgetImpactModel.calculate_eligible_population
CalculateEligiblePopulation(population, year) ==
    LET growth_factor ==
            IF population.growth_type = "linear"
            THEN RAdd(One, RMul(population.annual_growth_rate, FromInt(year)))
            ELSE IF population.growth_type = "exponential"
            THEN RPow(RAdd(One, population.annual_growth_rate), year)
            ELSE One
    IN  IntOf(RMul(RMul(RMul(RMul(FromInt(population.total_population), growth_factor),
                             population.prevalence_rate),
                        population.diagnosis_rate),
                   population.treatment_eligible_rate))

\* a faulty variant: the entering treatment takes the whole market at once
NewShareWholeMarket(uptake_type, max_share, year, n_years) == One

\* the share of the entering treatment in a year 1..n_years
NewShare(uptake_type, max_share, year, n_years) ==
    IF uptake_type = "linear"
    THEN RMin(max_share, RDiv(RMul(max_share, FromInt(year)), FromInt(n_years)))
    ELSE IF uptake_type = "s_curve"
    THEN RDiv(max_share, RAdd(One, ExpThreeQuarters(-(2 * year - n_years))))
    ELSE IF uptake_type = "immediate"
    THEN max_share
    ELSE RDiv(RMul(max_share, FromInt(year)), FromInt(n_years))

\* shares[treatment] = max(0, original_share - new_share * proportion)
DisplacedShare(original_share, new_share, total_displaced_share) ==
    ClampToZero(RSub(original_share,
                     RMul(new_share, RDiv(original_share, total_displaced_share))))

\* the shares of a year before they are normalised
SharesWithNew(current_shares, new_treatment, new_share, total_displaced_share) ==
    [t \in DOMAIN current_shares \cup {new_treatment} |->
        IF t = new_treatment THEN new_share
        ELSE IF RLt(Zero, total_displaced_share)
        THEN DisplacedShare(current_shares[t], new_share, total_displaced_share)
        ELSE current_shares[t]]

\* shares = {k: v / total} if total > 0
Normalised(shares, total) ==
    IF RLt(Zero, total) THEN [t \in DOMAIN shares |-> RDiv(shares[t], total)] ELSE shares

\* the shares of a year 1..n_years
SharesOfYear(current_shares, new_treatment, new_share) ==
    Normalised(
        SharesWithNew(current_shares, new_treatment, new_share,
                      SumOver(current_shares, DOMAIN current_shares \ {new_treatment})),
        SumOver(
            SharesWithNew(current_shares, new_treatment, new_share,
                          SumOver(current_shares, DOMAIN current_shares \ {new_treatment})),
            DOMAIN current_shares \cup {new_treatment}))

\* BudgetImpactModel.generate_market_shares: the scenarios of the years
\* 0..n_years, from index 1
GenerateMarketShares(new_treatment, uptake_type, max_share, current_shares, n_years) ==
    [y \in 1..(n_years + 1) |->
        IF y = 1 THEN current_shares
        ELSE SharesOfYear(current_shares, new_treatment,
                          NewShare(uptake_type, max_share, y - 1, n_years))]

\* the patients on a treatment: int(eligible_pop * share)
PatientsOf(eligible_pop, share) == IntOf(RMul(FromInt(eligible_pop), share))

\* the cost of a year under a share vector, over the known treatments
CostOfYear(treatments, shares, eligible_pop) ==
    SumOver([t \in DOMAIN shares \cap DOMAIN treatments |->
                FromInt(PatientsOf(eligible_pop, shares[t]) * treatments[t])],
            DOMAIN shares \cap DOMAIN treatments)

\* max(yearly_budget_impact, key = abs) and its index: the first year whose
\* impact equals the first impact of largest absolute value
PeakYear(yearly_budget_impact) ==
    CHOOSE y \in 1..Len(yearly_budget_impact) :
        /\ \A k \in 1..Len(yearly_budget_impact) :
              RLe([n |-> Abs(yearly_budget_impact[k].n), d |-> yearly_budget_impact[k].d],
                  [n |-> Abs(yearly_budget_impact[y].n), d |-> yearly_budget_impact[y].d])
        /\ \A k \in 1..(y - 1) :
              RLt([n |-> Abs(yearly_budget_impact[k].n), d |-> yearly_budget_impact[k].d],
                  [n |-> Abs(yearly_budget_impact[y].n), d |-> yearly_budget_impact[y].d])

\* the totals of calculate_costs from the yearly figures
BiaResults(yearly_costs_current, yearly_costs_new, yearly_budget_impact, scenarios_new) ==
    [yearly_costs_current |-> yearly_costs_current,
     yearly_costs_new |-> yearly_costs_new,
     yearly_budget_impact |-> yearly_budget_impact,
     cumulative_budget_impact |->
        [y \in 1..Len(yearly_budget_impact) |-> RSumTo(yearly_budget_impact, y)],
     total_budget_impact |-> RSum(yearly_budget_impact),
     average_annual_impact |->
        RDiv(RSum(yearly_budget_impact), FromInt(Len(yearly_budget_impact))),
     peak_annual_impact |-> yearly_budget_impact[PeakYear(yearly_budget_impact)],
     peak_year |-> PeakYear(yearly_budget_impact) - 1,
     new_scenario |-> scenarios_new]

\* the yearly impact from the yearly costs
BiaFromCosts(yearly_costs_current, yearly_costs_new, scenarios_new) ==
    BiaResults(yearly_costs_current, yearly_costs_new,
               [y \in 1..Len(yearly_costs_new) |->
                   RSub(yearly_costs_new[y], yearly_costs_current[y])],
               scenarios_new)

\* BudgetImpactModel.calculate_costs; the current scenario holds the current
\* shares in every year
CalculateCosts(treatments, population, current_shares, scenarios_new) ==
    BiaFromCosts(
        [y \in 1..Len(scenarios_new) |->
            CostOfYear(treatments, current_shares,
                       CalculateEligiblePopulation(population, y - 1))],
        [y \in 1..Len(scenarios_new) |->
            CostOfYear(treatments, scenarios_new[y],
                       CalculateEligiblePopulation(population, y - 1))],
        scenarios_new)

\* run_budget_impact_analysis
RunBudgetImpactAnalysis(params) ==
    CalculateCosts(
        Get(params, "treatments", DefaultTreatments),
        params.population,
        Get(params, "current_market_shares", DefaultCurrentShares),
        GenerateMarketShares(Get(params, "new_treatment_name", DefaultNewTreatmentName),
                             params.uptake_type, params.max_market_share,
                             Get(params, "current_market_shares", DefaultCurrentShares),
                             params.time_horizon))

\* the inputs: populations, treatments with their total annual cost, current
\* shares, entering treatments
BimPopulations ==
    { [total_population |-> 8, prevalence_rate |-> Rat(1, 2), diagnosis_rate |-> One,
       treatment_eligible_rate |-> One, growth_type |-> g,
       annual_growth_rate |-> Rat(1, 4)] :
      g \in {"constant", "linear", "exponential"} }

BimTreatments ==
    { [t \in {"A", "B", "New Treatment"} |->
          IF t = "A" THEN 3 ELSE IF t = "B" THEN 4 ELSE 5],
      [t \in {"A"} |-> 3] }

BimCurrentShares ==
    { [t \in {"A"} |-> One],
      [t \in {"A", "B"} |-> Rat(1, 2)],
      [t \in {"A", "New Treatment"} |-> IF t = "A" THEN Rat(3, 4) ELSE Rat(1, 4)],
      [t \in {"A"} |-> Rat(1, 2)] }

BimRequired ==
    { [time_horizon |-> h, population |-> p, uptake_type |-> u, max_market_share |-> m] :
      h \in 0..MaxHorizon, p \in BimPopulations,
      u \in {"linear", "s_curve", "immediate", "custom"},
      m \in {Zero, Rat(1, 2), One} }

\* the optional keys: all left out, or all given
BimParams ==
    BimRequired \cup
    { r @@ [treatments |-> t, current_market_shares |-> c, new_treatment_name |-> n] :
      r \in BimRequired, t \in BimTreatments, c \in BimCurrentShares,
      n \in {"New Treatment", "B", "A"} }

BimInit == bim \in { [pc |-> "called", params |-> ps] : ps \in BimParams }

\* run_budget_impact_analysis(params) returns
BimReturn ==
    /\ bim.pc = "called"
    /\ \E results \in {RunBudgetImpactAnalysis(bim.params)} :
          bim' = [pc |-> "returned", params |-> bim.params, results |-> results]
    /\ UNCHANGED <<flex, core, tree, psa, voi, tornado, icer_calc, np_random, surv, sim>>

InitBim ==
    /\ BimInit
    /\ flex = FlexIdle /\ core = CoreIdle /\ tree = TreeIdle /\ psa = PsaIdle
    /\ voi = VoiIdle /\ tornado = TornadoIdle /\ icer_calc = IcerIdle
    /\ np_random = NpRandomFresh
    /\ surv = SurvIdle
    /\ sim = SimIdle

NextBim == BimReturn

SpecBim == InitBim /\ [][NextBim]_vars

-----------------------------------------------------------------------------
(* Tornado analysis: engine/sensitivity/deterministic.py *)

\* bound: the largest number of entries of param_ranges
MaxRanges == 3

\* abs(x)
RAbs(x) == [n |-> Abs(x.n), d |-> x.d]

\* base_params.copy() with params[param_name] = value
WithParam(base_params, param_name, value) ==
    [k \in DOMAIN base_params \cup {param_name} |->
        IF k = param_name THEN value ELSE base_params[k]]

\* the entry appended for one parameter, from the two ICERs, both numbers
TornadoEntry(base_params, range, icer_low, icer_high) ==
    [parameter |-> range.name,
     base_value |-> base_params[range.name],
     low_value |-> range.low,
     high_value |-> range.high,
     icer_low |-> RoundedOrNone(icer_low),
     icer_high |-> RoundedOrNone(icer_high),
     impact |-> IF Truthy(RAbs(RSub(icer_high, icer_low)))
                THEN Round(RAbs(RSub(icer_high, icer_low)), 2) ELSE Zero]

\* one pass of the loop over param_ranges.items(): the entry, or the
\* exception that leaves tornado_analysis
TornadoStep(base_params, range, result_low, result_high) ==
    IF ~result_low.ok \/ ~result_high.ok THEN [raised |-> "ValueError"]
    ELSE IF result_low.summary.icer = NoneValue \/ result_high.summary.icer = NoneValue
    THEN [raised |-> "TypeError"]
    ELSE IF range.name \notin DOMAIN base_params THEN [raised |-> "KeyError"]
    ELSE [raised |-> "no",
          entry |-> TornadoEntry(base_params, range,
                                 result_low.summary.icer, result_high.summary.icer)]

\* the list after one more pass, or the exception
TornadoAppended(looped, step) ==
    IF looped.raised # "no" THEN looped
    ELSE IF step.raised # "no" THEN [raised |-> step.raised]
    ELSE [raised |-> "no", tornado_data |-> Append(looped.tornado_data, step.entry)]

\* the pass for one entry of param_ranges, after the passes before it
TornadoAppend(looped, base_params, range) ==
    TornadoAppended(
        looped,
        TornadoStep(base_params, range,
                    RunMarkovAnalysis(WithParam(base_params, range.name, range.low)),
                    RunMarkovAnalysis(WithParam(base_params, range.name, range.high))))

RECURSIVE TornadoLoop(_, _, _)
\* the loop over the first k entries of param_ranges
TornadoLoop(base_params, param_ranges, k) ==
    IF k = 0 THEN [raised |-> "no", tornado_data |-> <<>>]
    ELSE TornadoAppend(
            TornadoLoop(base_params, param_ranges, k - 1),
            base_params, param_ranges[k])

RECURSIVE InsertByImpact(_, _)
\* e put into a list sorted by impact, largest first, behind its equals
InsertByImpact(sorted, e) ==
    IF sorted = <<>> THEN <<e>>
    ELSE IF RLt(sorted[1].impact, e.impact) THEN <<e>> \o sorted
    ELSE <<sorted[1]>> \o InsertByImpact(Tail(sorted), e)

\* a faulty variant: the list is returned in the order of param_ranges
SortByImpactSkipped(tornado_data, k) == SubSeq(tornado_data, 1, k)

RECURSIVE SortByImpact(_, _)
\* tornado_data.sort(key = impact, reverse = True), stable, of the first k
SortByImpact(tornado_data, k) ==
    IF k = 0 THEN <<>>
    ELSE InsertByImpact(SortByImpact(tornado_data, k - 1), tornado_data[k])

\* the response of tornado_analysis from the base run and the loop
TornadoResponse(base_result, looped) ==
    IF ~base_result.ok THEN [raised |-> "ValueError"]
    ELSE IF looped.raised # "no" THEN looped
    ELSE [raised |-> "no",
          base_icer |-> base_result.summary.icer,
          tornado_data |-> SortByImpact(looped.tornado_data, Len(looped.tornado_data))]

\* tornado_analysis; raised # "no": an exception leaves it
TornadoAnalysis(base_params, param_ranges) ==
    TornadoResponse(RunMarkovAnalysis(base_params),
                    TornadoLoop(base_params, param_ranges, Len(param_ranges)))

\* the base parameters and the (name, low, high) entries the analysis is
\* called with
TornadoBaseParams ==
    { [time_horizon |-> 2, discount_rate |-> r, cohort_size |-> 1,
       prob_s_to_p_a |-> Rat(1, 4), prob_s_to_p_b |-> pb,
       prob_s_to_d |-> Zero, prob_p_to_d |-> Rat(1, 2),
       cost_drug_a |-> FromInt(3), cost_drug_b |-> FromInt(1),
       cost_state_s |-> FromInt(2), cost_state_p |-> FromInt(5),
       utility_stable |-> One, utility_progression |-> Rat(1, 2)] :
      r \in {Zero}, pb \in {Rat(1, 2), Rat(3, 2)} }

RangePool ==
    { [name |-> "cost_drug_a", low |-> FromInt(1), high |-> FromInt(5)],
      [name |-> "utility_stable", low |-> Rat(1, 2), high |-> One],
      [name |-> "prob_p_to_d", low |-> Rat(1, 4), high |-> Rat(3, 4)],
      [name |-> "cost_state_p", low |-> FromInt(5), high |-> FromInt(5)],
      [name |-> "prob_s_to_p_a", low |-> Zero, high |-> Rat(1, 2)],
      [name |-> "prob_s_to_d", low |-> Zero, high |-> Rat(3, 4)],
      [name |-> "not_a_parameter", low |-> Zero, high |-> One] }

\* param_ranges: a dict, so no name twice
ParamRanges ==
    { rs \in UNION { [1..n -> RangePool] : n \in 0..MaxRanges } :
        \A i, j \in 1..Len(rs) : i # j => rs[i].name # rs[j].name }

TornadoInit ==
    tornado \in { [pc |-> "called", base_params |-> bp, param_ranges |-> rs] :
                   bp \in TornadoBaseParams, rs \in ParamRanges }

\* tornado_analysis(base_params, param_ranges) returns
TornadoReturn ==
    /\ tornado.pc = "called"
    /\ \E response \in {TornadoAnalysis(tornado.base_params, tornado.param_ranges)} :
          /\ response.raised = "no"
          /\ tornado' = [pc |-> "returned", base_params |-> tornado.base_params,
                         param_ranges |-> tornado.param_ranges, response |-> response]
    /\ UNCHANGED <<flex, core, tree, psa, voi, bim, icer_calc, np_random, surv, sim>>

\* an exception leaves tornado_analysis
TornadoRaise ==
    /\ tornado.pc = "called"
    /\ \E response \in {TornadoAnalysis(tornado.base_params, tornado.param_ranges)} :
          /\ response.raised # "no"
          /\ tornado' = [pc |-> "raised", base_params |-> tornado.base_params,
                         param_ranges |-> tornado.param_ranges, response |-> response]
    /\ UNCHANGED <<flex, core, tree, psa, voi, bim, icer_calc, np_random, surv, sim>>

InitTornado ==
    /\ TornadoInit
    /\ flex = FlexIdle /\ core = CoreIdle /\ tree = TreeIdle /\ psa = PsaIdle
    /\ voi = VoiIdle /\ bim = BimIdle /\ icer_calc = IcerIdle
    /\ np_random = NpRandomFresh
    /\ surv = SurvIdle
    /\ sim = SimIdle

NextTornado == TornadoReturn \/ TornadoRaise

SpecTornado == InitTornado /\ [][NextTornado]_vars

-----------------------------------------------------------------------------
(* The three ICER calculators: DecisionTree.calculate_icer,
   FlexibleMarkovModel.calculate_icer, MarkovModel.compare_strategies *)

\* bound: the largest total cost and total effect of a strategy
MaxTotal == 2

\* DecisionTree.calculate_icer on the results of two strategies
TreeCalculateIcer(comp, interv, wtp_threshold) ==
    LET delta_cost == RSub(interv.expected_cost, comp.expected_cost)
        delta_eff == RSub(interv.expected_effectiveness, comp.expected_effectiveness)
        nmb == RSub(RMul(delta_eff, FromInt(wtp_threshold)), delta_cost)
    IN  [delta_cost |-> delta_cost,
         delta_effectiveness |-> delta_eff,
         icer |-> IF delta_eff = Zero THEN NoneValue ELSE RDiv(delta_cost, delta_eff),
         is_dominated |-> RLt(Zero, delta_cost) /\ RLe(delta_eff, Zero),
         is_cost_effective |-> RLt(Zero, nmb),
         net_monetary_benefit |-> nmb]

\* the quadrant of FlexibleMarkovModel.calculate_icer
Quadrant(delta_cost, delta_qaly) ==
    IF RLe(Zero, delta_cost) /\ RLe(Zero, delta_qaly) THEN "NE"
    ELSE IF RLt(delta_cost, Zero) /\ RLe(Zero, delta_qaly) THEN "SE"
    ELSE IF RLe(Zero, delta_cost) /\ RLt(delta_qaly, Zero) THEN "NW"
    ELSE "SW"

\* FlexibleMarkovModel.calculate_icer on the results of two strategies
FlexCalculateIcer(comparator, intervention) ==
    LET delta_cost == RSub(intervention.total_cost, comparator.total_cost)
        delta_qaly == RSub(intervention.total_qalys, comparator.total_qalys)
        delta_ly == RSub(intervention.total_lys, comparator.total_lys)
    IN  [delta_cost |-> delta_cost,
         delta_qaly |-> delta_qaly,
         delta_ly |-> delta_ly,
         icer |-> IF delta_qaly = Zero THEN NoneValue ELSE RDiv(delta_cost, delta_qaly),
         icur |-> IF delta_ly = Zero THEN NoneValue ELSE RDiv(delta_cost, delta_ly),
         is_dominated |-> Quadrant(delta_cost, delta_qaly) = "NW",
         is_extended_dominated |-> FALSE,
         quadrant |-> Quadrant(delta_cost, delta_qaly)]

\* the results of one strategy as each calculator receives them
TotalsOf(cost, effect) ==
    [total_cost |-> FromInt(cost), total_qalys |-> FromInt(effect),
     total_lys |-> FromInt(effect)]

ExpectedOf(cost, effect) ==
    [expected_cost |-> FromInt(cost), expected_effectiveness |-> FromInt(effect)]

IcerInit ==
    icer_calc \in { [pc |-> "given",
                     comparator |-> [cost |-> cc, effect |-> ce],
                     intervention |-> [cost |-> ic, effect |-> ie],
                     tree |-> NoneValue, flexible |-> NoneValue, fixed |-> NoneValue] :
                    cc \in 0..MaxTotal, ce \in 0..MaxTotal,
                    ic \in 0..MaxTotal, ie \in 0..MaxTotal }

\* DecisionTree.calculate_icer(comparator, intervention)
IcerTree ==
    /\ icer_calc.pc = "given"
    /\ icer_calc.tree = NoneValue
    /\ icer_calc' = [icer_calc EXCEPT !.tree =
            TreeCalculateIcer(
                ExpectedOf(icer_calc.comparator.cost, icer_calc.comparator.effect),
                ExpectedOf(icer_calc.intervention.cost, icer_calc.intervention.effect),
                DefaultWtpThreshold)]
    /\ UNCHANGED <<flex, core, tree, psa, voi, bim, tornado, np_random, surv, sim>>

\* FlexibleMarkovModel.calculate_icer(comparator, intervention)
IcerFlexible ==
    /\ icer_calc.pc = "given"
    /\ icer_calc.flexible = NoneValue
    /\ icer_calc' = [icer_calc EXCEPT !.flexible =
            FlexCalculateIcer(
                TotalsOf(icer_calc.comparator.cost, icer_calc.comparator.effect),
                TotalsOf(icer_calc.intervention.cost, icer_calc.intervention.effect))]
    /\ UNCHANGED <<flex, core, tree, psa, voi, bim, tornado, np_random, surv, sim>>

\* the comparison of MarkovModel.compare_strategies, strategy A being the
\* intervention
IcerFixed ==
    /\ icer_calc.pc = "given"
    /\ icer_calc.fixed = NoneValue
    /\ icer_calc' = [icer_calc EXCEPT !.fixed =
            Comparison(
                TotalsOf(icer_calc.intervention.cost, icer_calc.intervention.effect),
                TotalsOf(icer_calc.comparator.cost, icer_calc.comparator.effect))]
    /\ UNCHANGED <<flex, core, tree, psa, voi, bim, tornado, np_random, surv, sim>>

InitIcer ==
    /\ IcerInit
    /\ flex = FlexIdle /\ core = CoreIdle /\ tree = TreeIdle /\ psa = PsaIdle
    /\ voi = VoiIdle /\ bim = BimIdle /\ tornado = TornadoIdle
    /\ np_random = NpRandomFresh
    /\ surv = SurvIdle
    /\ sim = SimIdle

NextIcer == IcerTree \/ IcerFlexible \/ IcerFixed

SpecIcer == InitIcer /\ [][NextIcer]_vars

-----------------------------------------------------------------------------
(* Parametric survival: engine/survival/parametric.py *)

\* bound: the largest number of calls made on one object
MaxCalls == 3

\* float('nan')
NaN == [nan |-> TRUE]

SurvivalData(time, event) == [time |-> time, event |-> event]

\* the datasets fit is called with: two complete ones, an empty one, one
\* whose lists differ in length
SurvivalDatasets ==
    { SurvivalData(<<One, One>>, <<1, 1>>),
      SurvivalData(<<One, One, One>>, <<1, 1, 1>>),
      SurvivalData(<< >>, << >>),
      SurvivalData(<<One, One, One>>, <<1, 1>>) }

\* the scale the optimiser settles on for the exponential distribution: the
\* maximum-likelihood estimate, total time over the number of events; on
\* empty data its starting point log(mean([])) is NaN and stays NaN
FittedScale(data) ==
    IF data.time = << >> THEN NaN
    ELSE RDiv(RSum(data.time), FromInt(SumTo(data.event, Len(data.event))))

\* SurvivalParams(distribution, scale, shape)
SurvivalParams(distribution, scale, shape) ==
    [distribution |-> distribution, scale |-> scale, shape |-> shape]

\* events * log(hazard) cannot be broadcast
ShapesMismatch(data) ==
    Len(data.time) # Len(data.event) /\ Len(data.time) # 1 /\ Len(data.event) # 1

\* ParametricSurvival.fit for the exponential distribution: whether
\* self.params and self._fitted were assigned, and the exception that leaves
\* the call, if any: the likelihood raises inside the optimiser, before the
\* assignment; np.max(times) raises on empty data, after it
FitOutcome(distribution, data) ==
    IF ShapesMismatch(data)
    THEN [assigned |-> FALSE, raised |-> "ValueError: operands could not be broadcast"]
    ELSE IF data.time = << >>
    THEN [assigned |-> TRUE,
          params |-> SurvivalParams(distribution, FittedScale(data), One),
          raised |-> "ValueError: zero-size array"]
    ELSE [assigned |-> TRUE,
          params |-> SurvivalParams(distribution, FittedScale(data), One),
          raised |-> "no",
          result |-> [distribution |-> distribution,
                      parameters |-> [scale |-> FittedScale(data), shape |-> One]]]

\* S(t) = exp(-t / scale), for whole t / scale
SurvivalFunction(t, params) ==
    IF params.scale = NaN THEN NaN
    ELSE Exp(-(RDiv(t, params.scale).n \div RDiv(t, params.scale).d))

\* h(t) = 1 / scale
HazardFunction(t, params) ==
    IF params.scale = NaN THEN NaN ELSE RDiv(One, params.scale)

\* H(t) = -log(S(t)) = t / scale
CumulativeHazard(t, params) ==
    IF params.scale = NaN THEN NaN ELSE RDiv(t, params.scale)

\* exp(-h * hazard_ratio), for whole h * hazard_ratio
ExpOfMinus(h, hazard_ratio) ==
    IF h = NaN THEN NaN ELSE Exp(-((h.n * hazard_ratio) \div h.d))

\* x * hazard_ratio
TimesRatio(x, hazard_ratio) ==
    IF x = NaN THEN NaN ELSE RMul(x, FromInt(hazard_ratio))

\* the guard of predict and of to_transition_probabilities
NotFitted(model) == ~model.fitted \/ model.params = NoneValue

\* ParametricSurvival.predict on a fitted model
Predict(params, times, hazard_ratio) ==
    [times |-> times,
     survival_prob |->
        [k \in 1..Len(times) |->
            ExpOfMinus(CumulativeHazard(times[k], params), hazard_ratio)],
     hazard |->
        [k \in 1..Len(times) |-> TimesRatio(HazardFunction(times[k], params), hazard_ratio)],
     cumulative_hazard |->
        [k \in 1..Len(times) |->
            TimesRatio(CumulativeHazard(times[k], params), hazard_ratio)]]

\* min(max(p_transition, 0), 1) from the survival at the two ends of a cycle;
\* a comparison with NaN is false
TransitionProbability(s_start, s_end) ==
    IF s_start = NaN THEN One
    ELSE IF ~RLt(Zero, s_start) THEN One
    ELSE IF s_end = NaN THEN NaN
    ELSE RMin(One, IF RLt(RSub(One, RDiv(s_end, s_start)), Zero) THEN Zero
                   ELSE RSub(One, RDiv(s_end, s_start)))

\* ParametricSurvival.to_transition_probabilities on a fitted model,
\* cycle_length being 1.0
ToTransitionProbabilities(params, n_cycles, hazard_ratio) ==
    [c \in 1..n_cycles |->
        IF hazard_ratio # 1
        THEN TransitionProbability(
                ExpOfMinus(CumulativeHazard(FromInt(c - 1), params), hazard_ratio),
                ExpOfMinus(CumulativeHazard(FromInt(c), params), hazard_ratio))
        ELSE TransitionProbability(SurvivalFunction(FromInt(c - 1), params),
                                   SurvivalFunction(FromInt(c), params))]

\* ParametricSurvival(distribution); fit_completed records that a call of fit
\* has returned, calls counts the calls made on the object
SurvInit ==
    surv = [pc |-> "constructed", distribution |-> "exponential",
            params |-> NoneValue, fitted |-> FALSE,
            fit_completed |-> FALSE, calls |-> 0, last |-> [op |-> "init"]]

\* model.fit(data)
SurvFit ==
    /\ surv.pc = "constructed"
    /\ surv.calls < MaxCalls
    /\ \E data \in SurvivalDatasets :
        \E outcome \in {FitOutcome(surv.distribution, data)} :
          surv' = [surv EXCEPT
                     !.params = IF outcome.assigned THEN outcome.params ELSE @,
                     !.fitted = @ \/ outcome.assigned,
                     !.fit_completed = @ \/ outcome.raised = "no",
                     !.calls = @ + 1,
                     !.last = [op |-> "fit", data |-> data, raised |-> outcome.raised]]
    /\ UNCHANGED <<flex, core, tree, psa, voi, bim, tornado, icer_calc, np_random, sim>>

\* model.predict(times, hazard_ratio)
SurvPredict ==
    /\ surv.pc = "constructed"
    /\ surv.calls < MaxCalls
    /\ \E times \in {<< >>, <<One>>, <<Zero, FromInt(2)>>}, hazard_ratio \in {1, 2} :
          surv' = [surv EXCEPT
                     !.calls = @ + 1,
                     !.last =
                        IF NotFitted(surv)
                        THEN [op |-> "predict", times |-> times,
                              hazard_ratio |-> hazard_ratio,
                              raised |-> "ValueError: Model not fitted"]
                        ELSE [op |-> "predict", times |-> times,
                              hazard_ratio |-> hazard_ratio, raised |-> "no",
                              returned |-> Predict(surv.params, times, hazard_ratio)]]
    /\ UNCHANGED <<flex, core, tree, psa, voi, bim, tornado, icer_calc, np_random, sim>>

\* model.to_transition_probabilities(1.0, n_cycles, hazard_ratio)
SurvToTransitionProbabilities ==
    /\ surv.pc = "constructed"
    /\ surv.calls < MaxCalls
    /\ \E n_cycles \in 0..2, hazard_ratio \in {1, 2} :
          surv' = [surv EXCEPT
                     !.calls = @ + 1,
                     !.last =
                        IF NotFitted(surv)
                        THEN [op |-> "to_transition_probabilities",
                              n_cycles |-> n_cycles, hazard_ratio |-> hazard_ratio,
                              raised |-> "ValueError: Model not fitted"]
                        ELSE [op |-> "to_transition_probabilities",
                              n_cycles |-> n_cycles, hazard_ratio |-> hazard_ratio,
                              raised |-> "no",
                              returned |-> ToTransitionProbabilities(surv.params, n_cycles,
                                                                     hazard_ratio)]]
    /\ UNCHANGED <<flex, core, tree, psa, voi, bim, tornado, icer_calc, np_random, sim>>

InitSurv ==
    /\ SurvInit
    /\ flex = FlexIdle /\ core = CoreIdle /\ tree = TreeIdle /\ psa = PsaIdle
    /\ voi = VoiIdle /\ bim = BimIdle /\ tornado = TornadoIdle /\ icer_calc = IcerIdle
    /\ np_random = NpRandomFresh
    /\ sim = SimIdle

NextSurv == SurvFit \/ SurvPredict \/ SurvToTransitionProbabilities

SpecSurv == InitSurv /\ [][NextSurv]_vars

-----------------------------------------------------------------------------
(* Simulation endpoints: app/api/v1/endpoints/simulations.py *)

\* bound: the largest number of requests served
MaxRequests == 2

\* Scenario.parameter_values of the scenarios stored
ScenarioValues(prob_s_to_p_b) ==
    [time_horizon |-> 2, discount_rate |-> Zero, cohort_size |-> 1,
     prob_s_to_p_a |-> Rat(1, 4), prob_s_to_p_b |-> prob_s_to_p_b,
     prob_s_to_d |-> Zero, prob_p_to_d |-> Rat(1, 2),
     cost_drug_a |-> FromInt(3), cost_drug_b |-> FromInt(1),
     cost_state_s |-> FromInt(2), cost_state_p |-> FromInt(5),
     utility_stable |-> One, utility_progression |-> Rat(1, 2)]

\* the scenarios table, by id; every scenario belongs to organization 1
Scenarios ==
    <<ScenarioValues(Rat(1, 2)), ScenarioValues(Rat(9, 10)), ScenarioValues(Rat(3, 2))>>

\* the users that send requests
Users ==
    { [role |-> "global_admin", organization_id |-> 2],
      [role |-> "member", organization_id |-> 1],
      [role |-> "member", organization_id |-> 2] }

\* the column default of results: {}
EmptyResults == [empty |-> TRUE]

\* Simulation(scenario_id, simulation_type, status=RUNNING, input_snapshot),
\* added, committed and refreshed
Simulation(scenario_id, simulation_type, input_snapshot) ==
    [scenario_id |-> scenario_id, simulation_type |-> simulation_type,
     status |-> "running", input_snapshot |-> input_snapshot,
     results |-> EmptyResults, sensitivity_results |-> NoneValue,
     error_message |-> NoneValue, completed_at |-> NoneValue]

\* param_ranges of the tornado endpoint: each parameter at 0.8 and 1.2 times
\* its value
EndpointRange(base_params, name, default) ==
    [name |-> name,
     low |-> RMul(Get(base_params, name, default), Rat(4, 5)),
     high |-> RMul(Get(base_params, name, default), Rat(6, 5))]

EndpointRanges(base_params) ==
    <<EndpointRange(base_params, "cost_drug_a", FromInt(3500)),
      EndpointRange(base_params, "cost_drug_b", FromInt(500)),
      EndpointRange(base_params, "prob_s_to_p_a", Rat(1, 10)),
      EndpointRange(base_params, "prob_s_to_p_b", Rat(1, 4))>>

\* the outcome of a try block from the results of its engine calls:
\* raised # "no" is the exception caught
TryOutcome(sensitivity, key, base_results) ==
    IF sensitivity.raised # "no" THEN [raised |-> sensitivity.raised]
    ELSE IF ~base_results.ok THEN [raised |-> "ValueError"]
    ELSE [raised |-> "no", results |-> base_results,
          sensitivity_results |->
             IF key = "none" THEN NoneValue
             ELSE IF key = "tornado" THEN [tornado |-> sensitivity]
             ELSE [psa |-> sensitivity]]

\* the try block of run_deterministic_simulation
DeterministicRun(parameter_values) ==
    TryOutcome([raised |-> "no"], "none", RunMarkovAnalysis(parameter_values))

\* the try block of run_tornado_analysis_endpoint
TornadoRun(parameter_values) ==
    TryOutcome(TornadoAnalysis(parameter_values, EndpointRanges(parameter_values)),
               "tornado", RunMarkovAnalysis(parameter_values))

\* the try block of run_psa_simulation, run_psa having returned or raised
PsaRun(parameter_values, psa_results) ==
    TryOutcome(psa_results, "psa", RunMarkovAnalysis(parameter_values))

\* the record after the last lines of the try block
CompletedRecord(simulation, run) ==
    [simulation EXCEPT !.status = "completed", !.results = run.results,
                       !.sensitivity_results = run.sensitivity_results,
                       !.completed_at = [datetime |-> "utcnow"]]

\* a faulty variant: the handler leaves the record as it was
FailedRecordLeftRunning(simulation, run) == simulation

\* the record after the except block
FailedRecord(simulation, run) ==
    [simulation EXCEPT !.status = "failed", !.error_message = [str |-> run.raised]]

\* what the handler answers after its try statement
ResponseOf(simulation, run) ==
    IF run.raised = "no"
    THEN [status_code |-> 200, body |-> simulation]
    ELSE [status_code |-> 500, detail |-> <<"Simulation failed: ", run.raised>>]

\* a request that ended before a record was created
Refused(endpoint, scenario_id, status_code, detail) ==
    [endpoint |-> endpoint, scenario_id |-> scenario_id, simulation_id |-> 0,
     pc |-> "done", engine |-> "not called",
     response |-> [status_code |-> status_code, detail |-> detail]]

\* the service: the simulations table and the requests received with the
\* position of their handlers
SimInit ==
    sim = [pc |-> "serving", simulations |-> << >>, requests |-> << >>]

\* the head of a POST handler, up to the commit of the new record;
\* scenario_id 0 is the id of no scenario
Begin(endpoint, simulation_type, checks_organization, scenario_id, current_user) ==
    /\ sim.pc = "serving"
    /\ sim' =
            IF scenario_id = 0
            THEN [sim EXCEPT !.requests =
                     Append(@, Refused(endpoint, scenario_id, 404, "Scenario not found"))]
            ELSE IF /\ checks_organization
                    /\ current_user.role # "global_admin"
                    /\ current_user.organization_id # 1
            THEN [sim EXCEPT !.requests =
                     Append(@, Refused(endpoint, scenario_id, 403, "Not authorized"))]
            ELSE [sim EXCEPT
                    !.simulations =
                        Append(@, Simulation(scenario_id, simulation_type,
                                             Scenarios[scenario_id])),
                    !.requests =
                        Append(@, [endpoint |-> endpoint, scenario_id |-> scenario_id,
                                   simulation_id |-> Len(sim.simulations) + 1,
                                   pc |-> "running", engine |-> "not called",
                                   response |-> NoneValue])]
    /\ UNCHANGED <<flex, core, tree, psa, voi, bim, tornado, icer_calc, np_random, surv>>

\* the try statement of handler i and its answer
Finish(i, run) ==
    /\ sim' =
         [sim EXCEPT
            !.simulations[sim.requests[i].simulation_id] =
                IF run.raised = "no" THEN CompletedRecord(@, run)
                ELSE FailedRecord(@, run),
            !.requests[i] =
                [@ EXCEPT
                   !.pc = "done",
                   !.engine = IF run.raised = "no" THEN "returned" ELSE "raised",
                   !.response =
                      ResponseOf(
                         IF run.raised = "no"
                         THEN CompletedRecord(
                                 sim.simulations[sim.requests[i].simulation_id],
                                 run)
                         ELSE FailedRecord(
                                 sim.simulations[sim.requests[i].simulation_id], run),
                         run)]]
    /\ UNCHANGED <<flex, core, tree, psa, voi, bim, tornado, icer_calc, np_random, surv>>

\* the handlers at their try statement
Running(endpoint) ==
    { i \in 1..Len(sim.requests) :
        sim.requests[i].endpoint = endpoint /\ sim.requests[i].pc = "running" }

\* POST /deterministic
RunDeterministicSimulationBegin ==
    /\ Len(sim.requests) < MaxRequests
    /\ \E scenario_id \in 0..Len(Scenarios), current_user \in Users :
          Begin("deterministic", "deterministic", TRUE, scenario_id, current_user)

RunDeterministicSimulationFinish ==
    \E i \in Running("deterministic") :
      \E run \in {DeterministicRun(Scenarios[sim.requests[i].scenario_id])} :
        Finish(i, run)

\* POST /tornado
RunTornadoAnalysisEndpointBegin ==
    /\ Len(sim.requests) < MaxRequests
    /\ \E scenario_id \in 0..Len(Scenarios), current_user \in Users :
          Begin("tornado", "tornado", FALSE, scenario_id, current_user)

RunTornadoAnalysisEndpointFinish ==
    \E i \in Running("tornado") :
      \E run \in {TornadoRun(Scenarios[sim.requests[i].scenario_id])} :
        Finish(i, run)

\* POST /psa
RunPsaSimulationBegin ==
    /\ Len(sim.requests) < MaxRequests
    /\ \E scenario_id \in 0..Len(Scenarios), current_user \in Users :
          Begin("psa", "psa", FALSE, scenario_id, current_user)

\* run_psa returns its results or an exception leaves it
RunPsaSimulationFinish ==
    \E i \in Running("psa") :
      \E psa_results \in {[raised |-> "no", n_iterations |-> 1000],
                          [raised |-> "ValueError"]} :
        \E run \in {PsaRun(Scenarios[sim.requests[i].scenario_id], psa_results)} :
          Finish(i, run)

\* GET /{simulation_id}
GetSimulation ==
    /\ sim.pc = "serving"
    /\ Len(sim.requests) < MaxRequests
    /\ \E simulation_id \in 1..MaxRequests :
          sim' = [sim EXCEPT !.requests =
                    Append(@, [endpoint |-> "get", scenario_id |-> 0,
                               simulation_id |-> simulation_id,
                               pc |-> "done", engine |-> "not called",
                               response |->
                                  IF simulation_id \in 1..Len(sim.simulations)
                                  THEN [status_code |-> 200,
                                        body |-> sim.simulations[simulation_id]]
                                  ELSE [status_code |-> 404,
                                        detail |-> "Simulation not found"]])]
    /\ UNCHANGED <<flex, core, tree, psa, voi, bim, tornado, icer_calc, np_random, surv>>

InitSim ==
    /\ SimInit
    /\ flex = FlexIdle /\ core = CoreIdle /\ tree = TreeIdle /\ psa = PsaIdle
    /\ voi = VoiIdle /\ bim = BimIdle /\ tornado = TornadoIdle /\ icer_calc = IcerIdle
    /\ np_random = NpRandomFresh
    /\ surv = SurvIdle

NextSim ==
    \/ RunDeterministicSimulationBegin
    \/ RunDeterministicSimulationFinish
    \/ RunTornadoAnalysisEndpointBegin
    \/ RunTornadoAnalysisEndpointFinish
    \/ RunPsaSimulationBegin
    \/ RunPsaSimulationFinish
    \/ GetSimulation

SpecSim == InitSim /\ [][NextSim]_vars

-----------------------------------------------------------------------------
(* Claims on the flexible model *)

\* a matrix has been returned by build_transition_matrix
FlexMatrixBuilt == flex.pc = "built" \/ (flex.pc \in {"running", "done"} /\ Len(flex.trace) > 1)

RowSumsToOne(matrix) == \A i \in 1..NStates : RSum(matrix[i]) = One

\* the declared entries of the matrix, before the rows are fixed up
FlexRawMatrix == FillMatrix(ZeroMatrix, flex.transitions, 1, flex.matrix_cycle)

\* C1: every row of a matrix returned by build_transition_matrix sums to 1,
\* for every list of declared transitions and every cycle index: a
\* non-absorbing row declared below 1 gets the residual on its diagonal, a row
\* declared above 1 is divided by its sum
C1_RowStochastic ==
    FlexMatrixBuilt =>
        /\ RowSumsToOne(flex.matrix)
        /\ \A i \in 1..NStates :
              LET raw == FlexRawMatrix[i]
                  s == RSum(raw)
              IN  flex.state_types[i] # "absorbing" =>
                    /\ RLt(s, One) =>
                          flex.matrix[i] = [raw EXCEPT ![i] = RAdd(raw[i], RSub(One, s))]
                    /\ RLt(One, s) =>
                          \A j \in 1..NStates : RMul(flex.matrix[i][j], s) = raw[j]

\* C1 witness: a matrix was built holding a row that was declared above 1 and
\* a row that was declared below 1, in a cycle where time dependence acts
C1_Witness ==
    /\ FlexMatrixBuilt
    /\ flex.matrix_cycle > 0
    /\ \E i \in 1..NStates : flex.state_types[i] # "absorbing" /\ RLt(One, RSum(FlexRawMatrix[i]))
    /\ \E i \in 1..NStates : flex.state_types[i] # "absorbing" /\ RLt(RSum(FlexRawMatrix[i]), One)
    /\ \E k \in 1..Len(flex.transitions) : flex.transitions[k].time_dependent

ConservesPopulation(trace) ==
    \A t \in 1..Len(trace) : RSum(trace[t]) = RSum(trace[1])

\* C2: every row of the cohort trace of run_simulation (flexible model) and of
\* run_cohort_simulation (fixed model) sums to the sum of row 0, also when
\* the matrix changes from cycle to cycle
C2_Conservation ==
    /\ flex.pc \in {"running", "done"} => ConservesPopulation(flex.trace)
    /\ core.pc = "returned" =>
          /\ ConservesPopulation(core.result.drug_a_results.state_trace)
          /\ ConservesPopulation(core.result.drug_b_results.state_trace)
          /\ RSum(core.result.drug_a_results.state_trace[1]) = FromInt(core.params.cohort_size)

\* C2 witness: a finished run of two cycles or more whose matrix changed
\* from one cycle to the next and moved population
C2_Witness ==
    /\ flex.pc = "done"
    /\ flex.n_cycles >= 2
    /\ BuildTransitionMatrix(flex.state_types, flex.transitions, 1)
         # BuildTransitionMatrix(flex.state_types, flex.transitions, 2)
    /\ flex.trace[2] # flex.trace[1]
    /\ flex.trace[3] # flex.trace[2]

\* C3: row 0 of the cohort trace sums to the configured cohort_size
C3_InitialSumsToCohort ==
    flex.pc \in {"running", "done"} => RSum(flex.trace[1]) = FromInt(flex.cohort_size)

-----------------------------------------------------------------------------
(* Claims on the fixed 3-state model *)

NonNegativeTrace(trace) ==
    \A t \in 1..Len(trace) : \A i \in 1..3 : RLe(Zero, trace[t][i])

\* C4: for every parameter set build_transition_matrix accepts, every entry
\* of the cohort trace is a non-negative population count
C4_NonNegativeTrace ==
    core.pc = "returned" =>
        /\ NonNegativeTrace(core.result.drug_a_results.state_trace)
        /\ NonNegativeTrace(core.result.drug_b_results.state_trace)

AllStable(trace, cohort_size) ==
    \A t \in 1..Len(trace) : trace[t] = <<FromInt(cohort_size), Zero, Zero>>

\* C5: with prob_s_to_p = 0, prob_s_to_d = 0 and discount rate 0 the whole
\* cohort stays Stable in every cycle and the reported total QALYs are
\* cohort_size * utility_stable * number of cycles (to the four decimals of
\* the report)
C5_StableCohortQalys ==
    ( /\ core.pc = "returned"
      /\ core.params.prob_s_to_p_a = Zero
      /\ Get(core.params, "prob_s_to_d", DefaultProbSToD) = Zero
      /\ core.params.discount_rate = Zero )
    => /\ AllStable(core.result.drug_a_results.state_trace, core.params.cohort_size)
       /\ core.result.drug_a_results.total_qalys
            = Round(RMul(FromInt(core.params.cohort_size),
                         RMul(Get(core.params, "utility_stable", DefaultUtilityStable),
                              FromInt(core.params.time_horizon))), 4)

\* C6: when compare_strategies finds delta_effect = 0 and delta_cost > 0 the
\* result is dominated and carries no finite ICER; it never concludes
\* 'Cost-Effective'
C6_ZeroEffectNeverFinite ==
    ( /\ core.pc = "returned"
      /\ core.result.summary.delta_qaly = Zero
      /\ RLt(Zero, core.result.summary.delta_cost) )
    => /\ core.result.summary.icer = NoneValue
       /\ core.result.summary.is_dominated
       /\ core.result.summary.conclusion = "Dominated"

\* C6 witness: a comparison of two strategies with equal QALYs, the first one
\* dearer, over at least one cycle
C6_Witness ==
    /\ core.pc = "returned"
    /\ core.params.time_horizon > 0
    /\ core.result.summary.delta_qaly = Zero
    /\ RLt(Zero, core.result.summary.delta_cost)
    /\ core.result.drug_a_results.total_qalys # Zero

-----------------------------------------------------------------------------
(* Claims on the decision tree *)

\* C7: rollback is idempotent: a second call on a tree not modified since the
\* first leaves every node as the first call set it and returns the same pair
C7_RollbackIdempotent ==
    (tree.pc # "idle" /\ tree.last.op = "rollback" /\ tree.last.unmodified)
        => tree.nodes = tree.before /\ tree.returned = tree.returned_before

\* C7 witness: a second rollback in a row, on a tree whose chance node
\* averages two outcomes of positive probability
C7_Witness ==
    /\ tree.pc = "finished"
    /\ tree.last.op = "rollback"
    /\ tree.last.unmodified
    /\ Truthy(tree.nodes[3].probability)
    /\ Truthy(tree.nodes[2].expected_cost)

\* a sweep has returned that found its node and whose attribute the node holds
SweepReturned ==
    /\ tree.pc = "swept"
    /\ tree.last.op = "one_way_sensitivity"
    /\ tree.last.target # 0
    /\ tree.last.attribute = "probability" \/ tree.nodes[tree.last.target].payoff # NoneValue

\* C8: after one_way_sensitivity returns, the swept attribute of the target
\* node equals the value it had before the call
C8_AttributeRestored ==
    SweepReturned =>
        Attribute(tree.nodes[tree.last.target], tree.last.attribute)
            = Attribute(tree.before[tree.last.target], tree.last.attribute)

RolledBack == tree.pc # "idle" /\ tree.last.op = "rollback"

\* the sum of the children's probabilities, an unset one counting 0
ProbabilitySum(nodes, id) ==
    RSum([k \in 1..Len(nodes[id].children) |-> ProbOrZero(nodes[nodes[id].children[k]])])

\* the nodes with the probability of every child of id multiplied by factor
Rescaled(nodes, id, factor) ==
    [n \in NodeIds |->
        IF (\E k \in 1..Len(nodes[id].children) : nodes[id].children[k] = n)
           /\ nodes[n].probability # NoneValue
        THEN [nodes[n] EXCEPT !.probability = RMul(nodes[n].probability, factor)]
        ELSE nodes[n]]

\* the expected values of id in a roll-back of the rescaled tree
RescaledResult(nodes, id, factor, wtp_threshold) ==
    RollbackResult(Rollback(Rescaled(nodes, id, factor), RootId, wtp_threshold), id)

\* C21: after rollback, every chance node whose children's probabilities sum
\* to S # 0 holds the sum over the children of probability x expected value,
\* divided by S, and holds the same values when all the children's
\* probabilities are multiplied by one positive factor
C21_ChanceWeightedAverage ==
    RolledBack =>
        \A id \in NodeIds :
            (tree.nodes[id].node_type = "chance" /\ ProbabilitySum(tree.nodes, id) # Zero) =>
                /\ tree.nodes[id].expected_cost =
                      RDiv(RSum([k \in 1..Len(tree.nodes[id].children) |->
                                  RMul(ProbOrZero(tree.nodes[tree.nodes[id].children[k]]),
                                       tree.nodes[tree.nodes[id].children[k]].expected_cost)]),
                           ProbabilitySum(tree.nodes, id))
                /\ tree.nodes[id].expected_effectiveness =
                      RDiv(RSum([k \in 1..Len(tree.nodes[id].children) |->
                                  RMul(ProbOrZero(tree.nodes[tree.nodes[id].children[k]]),
                                       tree.nodes[tree.nodes[id].children[k]].expected_effectiveness)]),
                           ProbabilitySum(tree.nodes, id))
                /\ \A factor \in {Rat(1, 2), FromInt(2), FromInt(3)} :
                      RescaledResult(tree.before, id, factor, tree.wtp_threshold)
                          = RollbackResult(tree.nodes, id)

\* C21 witness: a rolled-back chance node of two outcomes of positive
\* probabilities that do not sum to 1, with a nonzero expected cost
C21_Witness ==
    /\ RolledBack
    /\ tree.nodes[2].node_type = "chance"
    /\ Truthy(tree.nodes[3].probability) /\ Truthy(tree.nodes[4].probability)
    /\ ProbabilitySum(tree.nodes, 2) # One
    /\ Truthy(tree.nodes[2].expected_cost) /\ Truthy(tree.nodes[2].expected_effectiveness)

\* C22: after rollback, every decision node with a child holds the expected
\* cost and effectiveness of a child whose net monetary benefit is at least
\* that of every other child, names it in optimal_choice, and that child is
\* the earliest of those of the largest net monetary benefit
C22_DecisionBestChild ==
    RolledBack =>
        \A id \in NodeIds :
            (tree.nodes[id].node_type = "decision" /\ Len(tree.nodes[id].children) > 0) =>
                \E b \in 1..Len(tree.nodes[id].children) :
                    /\ tree.nodes[id].optimal_choice = tree.nodes[tree.nodes[id].children[b]].name
                    /\ tree.nodes[id].expected_cost =
                          tree.nodes[tree.nodes[id].children[b]].expected_cost
                    /\ tree.nodes[id].expected_effectiveness =
                          tree.nodes[tree.nodes[id].children[b]].expected_effectiveness
                    /\ \A k \in 1..Len(tree.nodes[id].children) :
                          /\ RLe(Nmb(tree.nodes[tree.nodes[id].children[k]], tree.wtp_threshold),
                                 Nmb(tree.nodes[tree.nodes[id].children[b]], tree.wtp_threshold))
                          /\ k < b =>
                                RLt(Nmb(tree.nodes[tree.nodes[id].children[k]], tree.wtp_threshold),
                                    Nmb(tree.nodes[tree.nodes[id].children[b]], tree.wtp_threshold))

\* C22 witness: a rolled-back decision between two strategies of equal net
\* monetary benefit, the first of them chosen
C22_Witness ==
    /\ RolledBack
    /\ tree.nodes[RootId].node_type = "decision"
    /\ Nmb(tree.nodes[2], tree.wtp_threshold) = Nmb(tree.nodes[5], tree.wtp_threshold)
    /\ tree.nodes[RootId].optimal_choice = tree.nodes[2].name

\* the sum over the listed outcomes of probability x value
OutcomeSum(outcomes, value) ==
    RSum([k \in 1..Len(outcomes) |->
            IF value = "cost" THEN RMul(outcomes[k].probability, outcomes[k].cost)
            ELSE IF value = "effectiveness"
            THEN RMul(outcomes[k].probability, outcomes[k].effectiveness)
            ELSE outcomes[k].probability])

\* C28: for every strategy get_strategy_results returns, the cumulative
\* probabilities of its terminal outcomes sum to 1 and the sums of
\* probability x cost and of probability x effectiveness over them equal the
\* strategy's expected_cost and expected_effectiveness
C28_OutcomesConsistent ==
    (tree.pc = "collected") =>
        \A k \in 1..Len(tree.returned) :
            /\ OutcomeSum(tree.returned[k].probability_weighted_outcomes, "probability") = One
            /\ OutcomeSum(tree.returned[k].probability_weighted_outcomes, "cost")
                  = tree.returned[k].expected_cost
            /\ OutcomeSum(tree.returned[k].probability_weighted_outcomes, "effectiveness")
                  = tree.returned[k].expected_effectiveness

-----------------------------------------------------------------------------
(* Claims on the probabilistic sensitivity analysis *)

\* both calls of run_psa are over and had the same seed, not None
PsaSameSeedDone ==
    /\ psa.pc = "done"
    /\ psa.seeds[1] = psa.seeds[2]
    /\ psa.seeds[1] # NoneValue

\* C10: two calls of run_psa with equal base_params, distributions and
\* n_iterations and the same seed, not None, return identical results
C10_SameSeedSameResult ==
    PsaSameSeedDone => psa.results[1] = psa.results[2]

\* C10 witness: both calls returned, each with two iterations or more drawn
\* from the generator, and the draws of the iterations differ
C10_Witness ==
    /\ PsaSameSeedDone
    /\ psa.results[2].raised = "no"
    /\ Len(psa.results[2].psa_iterations) >= 2
    /\ psa.results[2].psa_iterations[1].delta_cost
         # psa.results[2].psa_iterations[2].delta_cost

NoStatistics ==
    [mean_icer |-> NoneValue, median_icer |-> NoneValue,
     ci_lower |-> NoneValue, ci_upper |-> NoneValue]

\* C11: a call of run_psa that reaches the end of its loop (n_iterations = 0
\* or every iteration skipped included) returns, and with no iteration
\* recorded its statistics are all absent; it does not raise
C11_EmptyRunReturns ==
    \A k \in 1..Len(psa.results) :
        psa.results[k].raised # "ValueError" =>
            /\ psa.results[k].raised = "no"
            /\ psa.results[k].n_iterations = 0 =>
                  /\ psa.results[k].psa_iterations = <<>>
                  /\ psa.results[k].statistics = NoStatistics

IterationNumbers(psa_iterations) ==
    { psa_iterations[k].iteration : k \in 1..Len(psa_iterations) }

Increasing(psa_iterations) ==
    \A k \in 1..(Len(psa_iterations) - 1) :
        psa_iterations[k].iteration < psa_iterations[k + 1].iteration

\* C12: an iteration whose model run raises is skipped and the loop goes on:
\* the recorded iterations are exactly the ones that did not fail, in
\* increasing order under their own numbers, and a run that returns has
\* executed all n_iterations
C12_SkippedNotFatal ==
    /\ psa.pc = "looping" =>
          /\ IterationNumbers(psa.psa_iterations) = (1..psa.i) \ psa.skipped
          /\ Increasing(psa.psa_iterations)
          /\ Len(psa.psa_iterations) + Cardinality(psa.skipped) = psa.i
    /\ (psa.pc = "done" /\ psa.results[2].raised = "no") =>
          /\ IterationNumbers(psa.results[2].psa_iterations)
                = (1..psa.n_iterations) \ psa.skipped
          /\ Increasing(psa.results[2].psa_iterations)
          /\ psa.results[2].n_iterations + Cardinality(psa.skipped) = psa.n_iterations

\* C12 witness: a call returned whose first iteration was skipped and whose
\* second iteration was recorded
C12_Witness ==
    /\ psa.pc = "done"
    /\ psa.results[2].raised = "no"
    /\ psa.skipped = {1}
    /\ IterationNumbers(psa.results[2].psa_iterations) = {2}

\* C24: after every iteration of run_psa, every parameter named in the
\* distributions is a key of the sampled parameters, whether or not it is a
\* key of base_params
C24_EveryDistributionSampled ==
    (psa.pc = "looping" /\ psa.sampled_params # NoneValue) =>
        \A k \in 1..Len(psa.distributions) :
            psa.distributions[k][1] \in DOMAIN psa.sampled_params

\* the candidate costs more and yields fewer QALYs
Dominated(iteration) ==
    RLt(Zero, iteration.delta_cost) /\ RLt(iteration.delta_qaly, Zero)

\* C26: at every threshold of the grid, the share of iterations the CEAC
\* counts as cost-effective is at most the share of the iterations that are
\* not dominated
C26_DominatedNotCounted ==
    psa.pc # "idle" =>
        \A c \in 1..Len(psa.results) :
            psa.results[c].raised = "no" =>
                \A w \in 1..Len(psa.results[c].ceac_data) :
                    RLe(psa.results[c].ceac_data[w].prob_ce,
                        Round(Rat(Cardinality({ k \in 1..Len(psa.results[c].psa_iterations) :
                                                  ~Dominated(psa.results[c].psa_iterations[k]) }),
                                  Len(psa.results[c].psa_iterations)), 4))

-----------------------------------------------------------------------------
(* Claims on the value-of-information analysis *)

\* the analysis returned an EVPI for a batch of two strategies or more
VoiReturned ==
    /\ voi.pc = "done"
    /\ voi.outcome.raised = "no"
    /\ Len(StrategiesOf(voi.analysed)) >= 2

\* C13: the per-patient EVPI of calculate_evpi is never negative, for every
\* batch of two strategies or more and every threshold, and so are the
\* population-level and the horizon-level EVPI
C13_EvpiNonNegative ==
    VoiReturned =>
        /\ RLe(Zero, voi.outcome.evpi.evpi_per_patient)
        /\ RLe(Zero, voi.outcome.evpi.evpi_population)
        /\ RLe(Zero, voi.outcome.evpi.evpi_decision_horizon)

\* C13 witness: an EVPI above zero, scaled to a population over a horizon
C13_Witness ==
    /\ VoiReturned
    /\ voi.psa_results # <<>>
    /\ RLt(Zero, voi.outcome.evpi.evpi_per_patient)
    /\ RLt(voi.outcome.evpi.evpi_population, voi.outcome.evpi.evpi_decision_horizon)

\* C14: the per-patient EVPPI of calculate_evppi_single never exceeds the
\* per-patient EVPI of calculate_evpi on the same batch
C14_EvppiAtMostEvpi ==
    VoiReturned =>
        \A k \in 1..Len(voi.outcome.evppi) :
            RLe(voi.outcome.evppi[k].evppi_per_patient, voi.outcome.evpi.evpi_per_patient)

\* C17: run_voi_analysis never returns an EVPI/EVPPI result for a batch whose
\* iterations carry fewer than two strategies
C17_FewStrategiesRejected ==
    (voi.pc = "done" /\ Len(StrategiesOf(voi.analysed)) < 2) => voi.outcome.raised # "no"

\* C19: no entry operation writes state that outlives the call: the
\* process-wide generator of numpy.random is the same after every step
C19_NoGlobalState == [][np_random' = np_random]_vars

-----------------------------------------------------------------------------
(* Claims on the budget impact *)

\* the analysis ran with current_market_shares = {"A": 1.0} and
\* max_market_share = 0, for an entering treatment that is not A itself
NoUptakeRun ==
    /\ bim.pc = "returned"
    /\ "current_market_shares" \in DOMAIN bim.params
    /\ bim.params.current_market_shares = [t \in {"A"} |-> One]
    /\ bim.params.max_market_share = Zero
    /\ bim.params.new_treatment_name # "A"

C23_SharesSumToOne ==
    bim.pc = "returned" =>
        \A y \in 1..Len(bim.results.new_scenario) :
            SumOver(bim.results.new_scenario[y], DOMAIN bim.results.new_scenario[y]) = One

\* the treatment entering the market, and the shares the analysis starts from
NewTreatmentOf(params) == Get(params, "new_treatment_name", DefaultNewTreatmentName)
CurrentSharesOf(params) == Get(params, "current_market_shares", DefaultCurrentShares)

\* C27: in every year 1..time_horizon of the new scenario of a returned
\* analysis whose entering treatment holds no current share, the share of
\* the entering treatment is at most max_share
C27_NewShareAtMostMax ==
    (/\ bim.pc = "returned"
     /\ NewTreatmentOf(bim.params) \notin DOMAIN CurrentSharesOf(bim.params)) =>
        \A y \in 2..Len(bim.results.new_scenario) :
            RLe(bim.results.new_scenario[y][NewTreatmentOf(bim.params)],
                bim.params.max_market_share)

-----------------------------------------------------------------------------
(* Claims on the tornado analysis *)

\* |ICER_high - ICER_low| of the entry, from the model runs themselves
ImpactOf(base_params, entry) ==
    RAbs(RSub(RunMarkovAnalysis(WithParam(base_params, entry.parameter,
                                          entry.high_value)).summary.icer,
              RunMarkovAnalysis(WithParam(base_params, entry.parameter,
                                          entry.low_value)).summary.icer))

\* C16: the tornado_data returned by tornado_analysis is ordered by
\* impact = |ICER_high - ICER_low|, largest first, and holds one entry per
\* range
C16_SortedByImpact ==
    tornado.pc = "returned" =>
        /\ Len(tornado.response.tornado_data) = Len(tornado.param_ranges)
        /\ \A k \in 1..(Len(tornado.response.tornado_data) - 1) :
              RLe(ImpactOf(tornado.base_params, tornado.response.tornado_data[k + 1]),
                  ImpactOf(tornado.base_params, tornado.response.tornado_data[k]))

\* C16 witness: three ranges were given in an order that is neither the
\* order of their impacts nor its reverse
C16_Witness ==
    /\ tornado.pc = "returned"
    /\ Len(tornado.response.tornado_data) = 3
    /\ tornado.response.tornado_data[1].parameter = tornado.param_ranges[2].name
    /\ RLt(tornado.response.tornado_data[3].impact, tornado.response.tornado_data[2].impact)
    /\ RLt(tornado.response.tornado_data[2].impact, tornado.response.tornado_data[1].impact)

-----------------------------------------------------------------------------
(* Claims on the three ICER calculators *)

\* C20: on the same pair of strategies, DecisionTree.calculate_icer reports
\* is_dominated exactly when FlexibleMarkovModel.calculate_icer does and
\* exactly when MarkovModel.compare_strategies does, zero differences included
C20_SameDominance ==
    /\ (icer_calc.pc = "given" /\ icer_calc.tree # NoneValue /\ icer_calc.flexible # NoneValue) =>
          (icer_calc.tree.is_dominated <=> icer_calc.flexible.is_dominated)
    /\ (icer_calc.pc = "given" /\ icer_calc.tree # NoneValue /\ icer_calc.fixed # NoneValue) =>
          (icer_calc.tree.is_dominated <=> icer_calc.fixed.is_dominated)

-----------------------------------------------------------------------------
(* Claims on invalid configurations of the flexible model *)

\* some non-absorbing state has no declared probability in some cycle of the
\* run
ZeroRowDeclared ==
    \E cycle \in 0..(flex.n_cycles - 1) : \E i \in 1..NStates :
        /\ flex.state_types[i] # "absorbing"
        /\ RSum(FillMatrix(ZeroMatrix, flex.transitions, 1, cycle)[i]) = Zero

\* C18: run_simulation does not return a result for a model in which the
\* declared transitions of a non-absorbing state sum to 0
C18_ZeroRowRejected ==
    flex.pc = "done" => ~ZeroRowDeclared

\* the total cost of the trace from the costs of the states alone: the
\* total cost of the same strategy with every Transition.cost at 0
StateCostTotal(model) ==
    RSum([c \in 1..model.n_cycles |->
            RMul(HalfCycleCorrected(CyclePayoffs(model.state_types, model.trace[c + 1]),
                                    c, model.n_cycles, model.half_cycle_correction).cost,
                 FlexDiscount(model.discount_rate_costs, c))])

\* a declared transition with a cost above 0 between two different states
\* carries population in some cycle of the run
CostlyTransitionTaken ==
    \E k \in 1..Len(flex.transitions) : \E c \in 1..flex.n_cycles :
        /\ RLt(Zero, flex.transitions[k].cost)
        /\ StateIdx(flex.transitions[k].from_state) # 0
        /\ StateIdx(flex.transitions[k].to_state) # 0
        /\ flex.transitions[k].from_state # flex.transitions[k].to_state
        /\ RLt(Zero, flex.trace[c][StateIdx(flex.transitions[k].from_state)])
        /\ RLt(Zero, BuildTransitionMatrix(flex.state_types, flex.transitions, c)
                        [StateIdx(flex.transitions[k].from_state)]
                        [StateIdx(flex.transitions[k].to_state)])

\* C25: the total cost of a run in which a transition with a cost above 0
\* carries population is higher than the total cost of the same strategy with
\* that cost at 0
C25_TransitionCostCounted ==
    (flex.pc = "done" /\ CostlyTransitionTaken) =>
        RLt(StateCostTotal(flex), flex.results.total_cost)

-----------------------------------------------------------------------------
(* Claims on the parametric survival object *)

\* C29: predict and to_transition_probabilities raise 'Model not fitted'
\* exactly when no call of fit has returned on the object before
C29_NotFittedUntilFitCompletes ==
    (surv.pc # "idle" /\ surv.last.op \in {"predict", "to_transition_probabilities"}) =>
        (surv.last.raised = "ValueError: Model not fitted" <=> ~surv.fit_completed)

-----------------------------------------------------------------------------
(* Claims on the simulation endpoints *)

\* the request that created record k
CreatorOf(k) ==
    CHOOSE i \in 1..Len(sim.requests) :
        sim.requests[i].endpoint # "get" /\ sim.requests[i].simulation_id = k

\* record k in one state: running while its request is served; afterwards
\* completed with results and completed_at, or failed with an error message
\* and the results it was created with; failed, and answered with status
\* 500, when the engine raised
LifecycleState(k) ==
    /\ sim.simulations[k].status \in {"running", "completed", "failed"}
    /\ sim.requests[CreatorOf(k)].pc = "running" <=> sim.simulations[k].status = "running"
    /\ sim.simulations[k].status = "completed" =>
          /\ sim.simulations[k].results # EmptyResults
          /\ sim.simulations[k].results # NoneValue
          /\ sim.simulations[k].completed_at # NoneValue
          /\ sim.simulations[k].error_message = NoneValue
    /\ sim.simulations[k].status = "failed" =>
          /\ sim.simulations[k].error_message # NoneValue
          /\ sim.simulations[k].results = EmptyResults
    /\ sim.requests[CreatorOf(k)].engine = "raised" =>
          /\ sim.simulations[k].status = "failed"
          /\ sim.requests[CreatorOf(k)].response.status_code = 500

\* the records over one step: a new record is running, a completed or failed
\* record stays as it is
LifecycleStep ==
    (sim.pc # "idle") =>
        /\ Len(sim'.simulations) >= Len(sim.simulations)
        /\ \A k \in 1..Len(sim'.simulations) :
              IF k > Len(sim.simulations)
              THEN sim'.simulations[k].status = "running"
              ELSE sim.simulations[k].status \in {"completed", "failed"} =>
                      sim'.simulations[k] = sim.simulations[k]

\* C30: every record of the three endpoints starts running; once its request
\* has finished it is completed (results and completed_at set) or failed
\* (error message set, results untouched); a completed or failed record never
\* changes; an engine failure ends in failed and an error answer
C30_RecordLifecycle ==
    /\ [](sim.pc # "idle" => \A k \in 1..Len(sim.simulations) : LifecycleState(k))
    /\ [][LifecycleStep]_vars

\* two requests served, one record completed, the other failed after the
\* engine raised, its caller answered with status 500
C30_Witness ==
    /\ sim.pc # "idle"
    /\ \E i, j \in 1..Len(sim.requests) :
          /\ sim.requests[i].pc = "done" /\ sim.requests[j].pc = "done"
          /\ sim.requests[i].engine = "returned"
          /\ sim.simulations[sim.requests[i].simulation_id].status = "completed"
          /\ sim.requests[j].engine = "raised"
          /\ sim.requests[j].response.status_code = 500
          /\ sim.simulations[sim.requests[j].simulation_id].status = "failed"

=============================================================================
